---- MODULE Spec2Model ----
(***************************************************************************)
(* Model of the ARDUINO_LED keyboard-driven LED pixel controller:          *)
(*   Pixel / PixelArray   (src/src/PIXEL_CLI/pixel.py, pixel_array.py)     *)
(*   KeyState             (src/key_state.py)                               *)
(*   the control loop     (src/pixel_cli.py and                            *)
(*                         src/src/PIXEL_CLI/pixel_cli.py)                 *)
(***************************************************************************)
EXTENDS Integers, Sequences, FiniteSets, TLC

VARIABLES
    px,           \* a stand-alone Pixel object (pixel.py)
    pixel_array,  \* the PixelArray object (pixel_array.py)
    key_state,    \* the KeyState object (key_state.py)
    loop,         \* the control loop: its position and run_ui's local state
    port,         \* the serial port: the frames written by the last step
    op,           \* the operation performed by the last step, with its inputs
    nops          \* number of operations performed so far

vars == <<px, pixel_array, key_state, loop, port, op, nops>>

(***************************************************************************)
(* Bounds of the model                                                     *)
(***************************************************************************)
MaxLeds  == 3     \* largest led_count given to the PixelArray constructor
MaxOps   == 3     \* operations performed on the PixelArray in one run
MaxPixelOps == 2  \* operations performed on the stand-alone Pixel
MaxBatch == 2     \* events delivered by one device.read()

(***************************************************************************)
(* Program constants                                                       *)
(***************************************************************************)
DEFAULT_GLOBAL_BRIGHTNESS == 64
DEFAULT_RED   == 128
DEFAULT_GREEN == 128
DEFAULT_BLUE  == 128
U8_MASK == 256   \* x & 0xFF is x % 256

Max2(a, b) == IF a >= b THEN a ELSE b
Min2(a, b) == IF a <= b THEN a ELSE b

\* op: the name of the last operation, its arguments, the events a poll was
\* given, and the object it was applied to as it was before the call
\* and the name of the operation before it
NoOp == [name |-> "init", arg |-> <<>>, evs |-> <<>>, pre |-> <<>>, prev |-> "none"]
MkOp(name, arg, pre) ==
    [name |-> name, arg |-> arg, evs |-> <<>>, pre |-> pre, prev |-> op.name]

(***************************************************************************)
(* Pixel  (src/src/PIXEL_CLI/pixel.py)                                     *)
(***************************************************************************)
\* Pixel.__init__
Pixel_init(index, is_active, is_selected, r, g, b, brightness) ==
    [index |-> index, is_active |-> is_active, is_selected |-> is_selected,
     r |-> r, g |-> g, b |-> b,
     brightness |-> Max2(0, Min2(255, brightness))]

\* Pixel.set_rgb8: the three channels, each masked to 8 bits; nothing else
Pixel_set_rgb8(p, r8, g8, b8) ==
    [p EXCEPT !.r = r8 % U8_MASK, !.g = g8 % U8_MASK, !.b = b8 % U8_MASK]

\* Pixel.get_rgb8
Pixel_get_rgb8(p) == <<p.r % U8_MASK, p.g % U8_MASK, p.b % U8_MASK>>

Pixel_set_selected_nobright(p, is_selected) ==
    [p EXCEPT !.is_selected = is_selected]

\* Pixel.set_selected: brightness is set to 255 whatever the flag
Pixel_set_selected(p, is_selected) ==
    [p EXCEPT !.is_selected = is_selected, !.brightness = 255]

Pixel_dim_nofloor(p, amount) ==
    IF p.is_selected THEN p
    ELSE IF ~p.is_active /\ p.r = 0 /\ p.g = 0 /\ p.b = 0 THEN p
    ELSE LET a == Max2(0, amount) IN
         IF a = 0 THEN p
         ELSE LET q == [p EXCEPT !.r = p.r - a, !.g = p.g - a, !.b = p.b - a]
              IN IF q.r = 0 /\ q.g = 0 /\ q.b = 0
                 THEN [q EXCEPT !.is_active = FALSE] ELSE q

Pixel_dim_noguard(p, amount) ==
    IF ~p.is_active /\ p.r = 0 /\ p.g = 0 /\ p.b = 0 THEN p
    ELSE LET a == Max2(0, amount) IN
         IF a = 0 THEN p
         ELSE LET q == [p EXCEPT !.r = Max2(0, p.r - a),
                                 !.g = Max2(0, p.g - a),
                                 !.b = Max2(0, p.b - a)]
              IN IF q.r = 0 /\ q.g = 0 /\ q.b = 0
                 THEN [q EXCEPT !.is_active = FALSE] ELSE q

\* Pixel.dim
Pixel_dim(p, amount) ==
    IF p.is_selected THEN p
    ELSE IF ~p.is_active /\ p.r = 0 /\ p.g = 0 /\ p.b = 0 THEN p
    ELSE LET a == Max2(0, amount) IN
         IF a = 0 THEN p
         ELSE LET q == [p EXCEPT !.r = Max2(0, p.r - a),
                                 !.g = Max2(0, p.g - a),
                                 !.b = Max2(0, p.b - a)]
              IN IF q.r = 0 /\ q.g = 0 /\ q.b = 0
                 THEN [q EXCEPT !.is_active = FALSE] ELSE q

(***************************************************************************)
(* PixelArray  (src/src/PIXEL_CLI/pixel_array.py)                          *)
(***************************************************************************)
\* PixelArray.__init__
PixelArray_init(led_count) ==
    [led_count |-> led_count,
     pixels |-> [i \in 0..(led_count - 1) |->
                   IF i = 0
                   THEN Pixel_set_selected(Pixel_init(i, FALSE, FALSE, 0, 0, 0, 255), TRUE)
                   ELSE Pixel_init(i, FALSE, FALSE, 0, 0, 0, 255)],
     selected_pixel_index |-> 0,
     selected_color |-> <<DEFAULT_RED, DEFAULT_GREEN, DEFAULT_BLUE>>,
     global_brightness |-> DEFAULT_GLOBAL_BRIGHTNESS]

\* PixelArray.set_rgb8
PixelArray_set_rgb8(pa, led_index, r8, g8, b8) ==
    [pa EXCEPT !.pixels[led_index] = Pixel_set_rgb8(@, r8, g8, b8)]

\* PixelArray.get_rgb8
PixelArray_get_rgb8(pa, led_index) == Pixel_get_rgb8(pa.pixels[led_index])

\* PixelArray.apply_selected_color_to
apply_selected_color_to(pa, index) ==
    PixelArray_set_rgb8(pa, index, pa.selected_color[1], pa.selected_color[2],
                        pa.selected_color[3])

set_selected_pixel_keepold(pa, new_selected_index) ==
    LET n == new_selected_index % pa.led_count IN
    IF n = pa.selected_pixel_index THEN pa
    ELSE LET pa1 == [pa EXCEPT !.selected_pixel_index = n]
             pa2 == apply_selected_color_to(pa1, n)
         IN [pa2 EXCEPT !.pixels[n] = Pixel_set_selected(@, TRUE)]

set_selected_pixel_nopaint(pa, new_selected_index) ==
    LET n == new_selected_index % pa.led_count IN
    IF n = pa.selected_pixel_index THEN pa
    ELSE LET old == pa.selected_pixel_index
             pa1 == [pa EXCEPT !.pixels[old] = Pixel_set_selected(@, FALSE),
                               !.selected_pixel_index = n]
         IN [pa1 EXCEPT !.pixels[n] = Pixel_set_selected(@, TRUE)]

set_selected_pixel_noearlyreturn(pa, new_selected_index) ==
    LET n == new_selected_index % pa.led_count
        old == pa.selected_pixel_index
        pa1 == [pa EXCEPT !.pixels[old] = Pixel_set_selected(@, FALSE),
                          !.selected_pixel_index = n]
        pa2 == apply_selected_color_to(pa1, n)
    IN [pa2 EXCEPT !.pixels[n] = Pixel_set_selected(@, TRUE)]

\* PixelArray.set_selected_pixel
set_selected_pixel(pa, new_selected_index) ==
    LET n == new_selected_index % pa.led_count IN
    IF n = pa.selected_pixel_index THEN pa
    ELSE LET old == pa.selected_pixel_index
             pa1 == [pa EXCEPT !.pixels[old] = Pixel_set_selected(@, FALSE),
                               !.selected_pixel_index = n]
             pa2 == apply_selected_color_to(pa1, n)
         IN [pa2 EXCEPT !.pixels[n] = Pixel_set_selected(@, TRUE)]

\* PixelArray.get_selected_pixel
get_selected_pixel(pa) == pa.selected_pixel_index

\* PixelArray.set_global_brightness
set_global_brightness(pa, global_brightness) ==
    [pa EXCEPT !.global_brightness = global_brightness]

set_selected_color_unclamped(pa, r, g, b) ==
    [pa EXCEPT !.selected_color = <<r, g, b>>]

\* PixelArray.set_selected_color: each channel clamped to 0..255
set_selected_color(pa, r, g, b) ==
    LET c(x) == IF x > 255 THEN 255 ELSE IF x < 0 THEN 0 ELSE x
    IN [pa EXCEPT !.selected_color = <<c(r), c(g), c(b)>>]

clear_keepbrightness(pa) ==
    [pa EXCEPT !.pixels = [i \in DOMAIN pa.pixels |->
        [pa.pixels[i] EXCEPT !.is_active = FALSE, !.r = 0, !.g = 0, !.b = 0]]]

\* PixelArray.clear
clear(pa) ==
    [pa EXCEPT !.pixels = [i \in DOMAIN pa.pixels |->
        [pa.pixels[i] EXCEPT !.is_active = FALSE, !.r = 0, !.g = 0, !.b = 0,
                             !.brightness = 0]]]

(***************************************************************************)
(* KeyState  (src/key_state.py)                                            *)
(***************************************************************************)
EV_KEY == "EV_KEY"
EV_SYN == "EV_SYN"
KEY_UP_STATE   == 0   \* keystate 0 = UP
KEY_DOWN_STATE == 1   \* keystate 1 = DOWN
KEY_HOLD_STATE == 2   \* keystate 2 = HOLD / auto-repeat

\* KeyState.__init__
KeyState_init ==
    [pressed_keys |-> {}, keys_pressed_this_tick |-> {},
     keys_released_this_tick |-> {}]

handle_event_noedgecheck(ks, ev) ==
    IF ev.type # EV_KEY THEN ks
    ELSE IF ev.keystate \in {KEY_DOWN_STATE, KEY_HOLD_STATE}
    THEN [ks EXCEPT !.keys_pressed_this_tick = @ \cup {ev.key},
                    !.pressed_keys = @ \cup {ev.key}]
    ELSE IF ev.keystate = KEY_UP_STATE /\ ev.key \in ks.pressed_keys
    THEN [ks EXCEPT !.pressed_keys = @ \ {ev.key},
                    !.keys_released_this_tick = @ \cup {ev.key}]
    ELSE ks

handle_event_upalways(ks, ev) ==
    IF ev.type # EV_KEY THEN ks
    ELSE IF ev.keystate \in {KEY_DOWN_STATE, KEY_HOLD_STATE}
    THEN [ks EXCEPT !.keys_pressed_this_tick =
                        IF ev.key \notin ks.pressed_keys THEN @ \cup {ev.key} ELSE @,
                    !.pressed_keys = @ \cup {ev.key}]
    ELSE IF ev.keystate = KEY_UP_STATE
    THEN [ks EXCEPT !.pressed_keys = @ \ {ev.key},
                    !.keys_released_this_tick = @ \cup {ev.key}]
    ELSE ks

handle_event_taplost(ks, ev) ==
    IF ev.type # EV_KEY THEN ks
    ELSE IF ev.keystate \in {KEY_DOWN_STATE, KEY_HOLD_STATE}
    THEN [ks EXCEPT !.keys_pressed_this_tick =
                        IF ev.key \notin ks.pressed_keys THEN @ \cup {ev.key} ELSE @,
                    !.pressed_keys = @ \cup {ev.key}]
    ELSE IF ev.keystate = KEY_UP_STATE /\ ev.key \in ks.pressed_keys
    THEN [ks EXCEPT !.pressed_keys = @ \ {ev.key},
                    !.keys_pressed_this_tick = @ \ {ev.key},
                    !.keys_released_this_tick = @ \cup {ev.key}]
    ELSE ks

\* the body of the for loop of KeyState.poll, for one event
handle_event(ks, ev) ==
    IF ev.type # EV_KEY THEN ks
    ELSE IF ev.keystate \in {KEY_DOWN_STATE, KEY_HOLD_STATE}
    THEN [ks EXCEPT !.keys_pressed_this_tick =
                        IF ev.key \notin ks.pressed_keys THEN @ \cup {ev.key} ELSE @,
                    !.pressed_keys = @ \cup {ev.key}]
    ELSE IF ev.keystate = KEY_UP_STATE /\ ev.key \in ks.pressed_keys
    THEN [ks EXCEPT !.pressed_keys = @ \ {ev.key},
                    !.keys_released_this_tick = @ \cup {ev.key}]
    ELSE ks

RECURSIVE handle_events(_, _)
handle_events(ks, evs) ==
    IF evs = <<>> THEN ks
    ELSE handle_events(handle_event(ks, Head(evs)), Tail(evs))

poll_keepedges(ks, outcome, evs) ==
    IF outcome \in {"select_error", "idle"} THEN ks
    ELSE handle_events([ks EXCEPT !.keys_pressed_this_tick = {},
                                  !.keys_released_this_tick = {}], evs)

\* KeyState.poll.  outcome is what the device does in this poll:
\*   "select_error": select.select raises;  "idle": the device is not readable;
\*   "read": device.read() yields evs;  "read_error": device.read() yields evs
\*   and then raises BlockingIOError / OSError (swallowed).
poll(ks, outcome, evs) ==
    LET cleared == [ks EXCEPT !.keys_pressed_this_tick = {},
                              !.keys_released_this_tick = {}]
    IN IF outcome \in {"select_error", "idle"} THEN cleared
       ELSE handle_events(cleared, evs)

\* KeyState.is_pressed
is_pressed(ks, keycode_names) == \A k \in keycode_names : k \in ks.pressed_keys

down_edge_whileheld(ks, keycode_names) ==
    \A k \in keycode_names : k \in ks.pressed_keys

\* KeyState.down_edge
down_edge(ks, keycode_names) ==
    \A k \in keycode_names : k \in ks.keys_pressed_this_tick

RECURSIVE SeqsUpTo(_, _)
SeqsUpTo(S, n) ==
    IF n = 0 THEN {<<>>}
    ELSE LET shorter == SeqsUpTo(S, n - 1)
         IN shorter \cup {Append(q, e) : q \in shorter, e \in S}

(***************************************************************************)
(* Wire frames  (src/pixel_protocol.py).  A frame is kept as its command   *)
(* byte and its payload bytes.                                              *)
(***************************************************************************)
CMD_BRIGHTNESS == 19   \* 0x13
CMD_SET_PIXEL  == 16   \* 0x10
CMD_SHOW       == 4    \* 0x04

send_set_pixel_bigendian(pixel_index, r, g, b) ==
    [cmd |-> CMD_SET_PIXEL,
     payload |-> <<(pixel_index \div U8_MASK) % U8_MASK, pixel_index % U8_MASK,
                   r % U8_MASK, g % U8_MASK, b % U8_MASK>>]

\* send_set_pixel: index as two little-endian bytes, then r, g, b, each & 0xFF
send_set_pixel(pixel_index, r, g, b) ==
    [cmd |-> CMD_SET_PIXEL,
     payload |-> <<pixel_index % U8_MASK, (pixel_index \div U8_MASK) % U8_MASK,
                   r % U8_MASK, g % U8_MASK, b % U8_MASK>>]

send_brightness_wrapped(value) ==
    [cmd |-> CMD_BRIGHTNESS, payload |-> <<value % U8_MASK>>]

\* send_brightness: the value clamped to 0..255
send_brightness(value) ==
    [cmd |-> CMD_BRIGHTNESS, payload |-> <<Max2(0, Min2(255, value))>>]

\* send_show
send_show == [cmd |-> CMD_SHOW, payload |-> <<>>]

(***************************************************************************)
(* The bytes of a frame  (src/pixel_protocol.py)                            *)
(***************************************************************************)
START_OF_FRAME_1 == 165   \* 0xA5
START_OF_FRAME_2 == 90    \* 0x5A
CRC_POLY == 7             \* 0x07
CRC_TOP_BIT == 128        \* 0x80

\* a ^ b on non-negative integers
RECURSIVE BitXor(_, _)
BitXor(a, b) ==
    IF a = 0 THEN b
    ELSE IF b = 0 THEN a
    ELSE (((a % 2) + (b % 2)) % 2) + 2 * BitXor(a \div 2, b \div 2)

\* one pass of the inner loop of compute_crc8
crc8_shift(checksum) ==
    IF checksum >= CRC_TOP_BIT
    THEN BitXor(checksum * 2, CRC_POLY) % U8_MASK
    ELSE (checksum * 2) % U8_MASK

\* `for _ in range(8)`: n passes of the inner loop
RECURSIVE crc8_shifts(_, _)
crc8_shifts(checksum, n) ==
    IF n = 0 THEN checksum ELSE crc8_shifts(crc8_shift(checksum), n - 1)

\* the effect of the eight passes, per value of checksum after `^= byte_value`
crc8_byte == [c \in 0..(U8_MASK - 1) |-> crc8_shifts(c, 8)]

\* the outer loop of compute_crc8 from a given checksum
RECURSIVE crc8_from(_, _)
crc8_from(checksum, data_bytes) ==
    IF data_bytes = <<>> THEN checksum
    ELSE crc8_from(crc8_byte[BitXor(checksum, Head(data_bytes))],
                   Tail(data_bytes))

compute_crc8_poly9(data_bytes) ==
    LET step(c) == IF c >= CRC_TOP_BIT THEN BitXor(c * 2, 9) % U8_MASK
                   ELSE (c * 2) % U8_MASK
        byte(c) == step(step(step(step(step(step(step(step(c))))))))
        F[i \in 0..Len(data_bytes)] ==
            IF i = 0 THEN 0 ELSE byte(BitXor(F[i - 1], data_bytes[i]))
    IN F[Len(data_bytes)]

compute_crc8_low7(data_bytes) ==
    crc8_from(0, [i \in DOMAIN data_bytes |-> data_bytes[i] % CRC_TOP_BIT])

\* compute_crc8
compute_crc8(data_bytes) == crc8_from(0, data_bytes)

frame_bytes_crcofall(f) ==
    LET header == <<START_OF_FRAME_1, START_OF_FRAME_2, f.cmd,
                    Len(f.payload) % U8_MASK, (Len(f.payload) \div U8_MASK) % U8_MASK>>
        crc == compute_crc8(header \o f.payload)
    IN header \o f.payload \o <<crc>>

\* the bytes handed to port.write for a frame: header, payload, checksum of
\* header[2:] + payload
frame_bytes(f) ==
    LET header == <<START_OF_FRAME_1, START_OF_FRAME_2, f.cmd,
                    Len(f.payload) % U8_MASK, (Len(f.payload) \div U8_MASK) % U8_MASK>>
        crc == compute_crc8(SubSeq(header, 3, 5) \o f.payload)
    IN header \o f.payload \o <<crc>>

(***************************************************************************)
(* The transport.  port.write(...) either accepts a frame or raises; a     *)
(* port accepts `remaining` more writes and raises on the next one         *)
(* (Unlimited: it never raises).  port.writes holds the frames accepted    *)
(* during the current step, port.error tells that a write of the step      *)
(* raised.                                                                  *)
(***************************************************************************)
Unlimited == -1

\* the writes of one step, in order, stopping at the first one that raises
Transmit(p, w) ==
    LET n == IF p.remaining = Unlimited \/ Len(w) <= p.remaining
             THEN Len(w) ELSE p.remaining
    IN [p EXCEPT !.writes = SubSeq(w, 1, n),
                 !.remaining = IF @ = Unlimited THEN @ ELSE @ - n,
                 !.error = n < Len(w)]

\* an exception raised inside run_ui is caught nowhere in it: the loop is
\* left at once and the exception reaches main
Propagate_swallowed(lp, raised) == lp

Propagate(lp, raised) == IF raised THEN [lp EXCEPT !.pc = "failed"] ELSE lp

(***************************************************************************)
(* The control loop.  Two programs implement it:                            *)
(*   "script"  : run_ui of src/pixel_cli.py                                 *)
(*   "package" : run_ui / poll_keyboard of src/src/PIXEL_CLI/pixel_cli.py   *)
(* One iteration of `while True` is the steps Poll, Keys, Move, Redraw;     *)
(* loop.pc is the step the iteration is at.  Times are in microseconds.     *)
(***************************************************************************)
KEY_LEFT == "KEY_LEFT"
KEY_RIGHT == "KEY_RIGHT"
KEY_UP == "KEY_UP"
KEY_DOWN == "KEY_DOWN"
KEY_LEFTSHIFT == "KEY_LEFTSHIFT"
KEY_RIGHTSHIFT == "KEY_RIGHTSHIFT"
KEY_LEFTCTRL == "KEY_LEFTCTRL"
KEY_RIGHTCTRL == "KEY_RIGHTCTRL"
KEY_M == "KEY_M"
KEY_LEFTBRACE == "KEY_LEFTBRACE"
KEY_RIGHTBRACE == "KEY_RIGHTBRACE"
KEY_C == "KEY_C"
KEY_F == "KEY_F"
KEY_SPACE == "KEY_SPACE"
KEY_Q == "KEY_Q"
KEY_COMMA == "KEY_COMMA"
KEY_DOT == "KEY_DOT"
KEY_EQUAL == "KEY_EQUAL"
KEY_MINUS == "KEY_MINUS"
KEY_KPPLUS == "KEY_KPPLUS"
KEY_KPMINUS == "KEY_KPMINUS"

DEFAULT_NUM_LEDS == 288
DEFAULT_FPS == 50
DEFAULT_STEP == 8
SCRIPT_INITIAL_PEN == 64          \* selected_red, selected_green, selected_blue
SCRIPT_INITIAL_BRIGHTNESS == 255  \* global_brightness of the script's run_ui
MICROSECONDS == 1000000           \* one second; FADE_TIME_SECONDS_DEFAULT = 1.0
MOVEMENT_REPEAT_HZ == 60
MIN_MOVEMENT_INTERVAL == 2000     \* 0.002 s
IDLE_CHECK_INTERVAL == 5000       \* 0.005 s
SLEEP_QUANTUM == 1000             \* time.sleep(0.001)
SPEED_SHIFT == 3
SPEED_CTRL == 12
STEP_UP == 5
STEP_DOWN == 9
NUM_CHANNELS == 3

\* the frames `for led_index in range(n): send_set_pixel(port, led_index, r, g, b)`
SetPixelFrames(n, r, g, b) == [k \in 1..n |-> send_set_pixel(k - 1, r, g, b)]

\* reset_led (package)
reset_led(pa) ==
    [pa |-> clear(pa),
     w  |-> SetPixelFrames(DEFAULT_NUM_LEDS, 0, 0, 0)
              \o <<send_brightness(pa.global_brightness), send_show>>]

\* the frames of one fill_led call (package)
fill_led_frames(global_brightness, red, green, blue) ==
    SetPixelFrames(DEFAULT_NUM_LEDS, red, green, blue)
        \o <<send_brightness(global_brightness), send_show>>

\* the state of run_ui when it enters `while True`
\* (kbd: the keys the keyboard delivers; durations: the times one iteration
\* may take)
LoopStart(variant, led_count, fps, adjustment_step, kbd, durations) ==
    [variant |-> variant, pc |-> "poll", kbd |-> kbd, durations |-> durations,
     led_count |-> led_count, fps |-> fps, adjustment_step |-> adjustment_step,
     clock |-> 0, ticks |-> 0,
     selected_led_index |-> 0,
     selected_rgb |-> <<SCRIPT_INITIAL_PEN, SCRIPT_INITIAL_PEN, SCRIPT_INITIAL_PEN>>,
     is_mono_mode |-> FALSE,
     active_channel_index |-> 0,
     global_brightness |-> SCRIPT_INITIAL_BRIGHTNESS,
     movement_repeat_interval |-> MICROSECONDS \div MOVEMENT_REPEAT_HZ,
     next_movement_time |-> 0,
     next_redraw_time |-> 0,
     last_redraw_time |-> 0]

\* the array as run_ui leaves it before the loop: constructed, then cleared
ArrayAtLoopStart(led_count) == clear(PixelArray_init(led_count))

\* the frames run_ui writes before the loop
InitFrames(variant, led_count) ==
    IF variant = "script"
    THEN SetPixelFrames(led_count, 0, 0, 0)
            \o <<send_brightness(SCRIPT_INITIAL_BRIGHTNESS), send_show>>
    ELSE reset_led(PixelArray_init(led_count)).w

LoopNotStarted == LoopStart("none", 1, DEFAULT_FPS, DEFAULT_STEP, {}, {})
PortIdle ==
    [writes |-> <<>>, closed |-> FALSE, remaining |-> Unlimited, error |-> FALSE]

Clamp255(x) == Max2(0, Min2(255, x))
Max3(t) == Max2(t[1], Max2(t[2], t[3]))

(***************************************************************************)
(* Step Keys: everything between key_state.poll() and the movement block.  *)
(* Each operator returns [pa, lp, w]: the array, the loop state (with the   *)
(* next pc) and the frames written.                                         *)
(***************************************************************************)
\* script: the quit blocks (lines 205-218)
Script_quit(pa, lp) ==
    [pa |-> clear(pa),
     lp |-> [lp EXCEPT !.pc = "quit"],
     w  |-> SetPixelFrames(lp.led_count, 0, 0, 0) \o <<send_show>>]

\* script: lines 220-272
Script_actions(ks, pa, lp) ==
    LET step == lp.adjustment_step
        mono == IF down_edge(ks, {KEY_M}) THEN ~lp.is_mono_mode ELSE lp.is_mono_mode
        ch1  == IF down_edge(ks, {KEY_LEFTBRACE})
                THEN (lp.active_channel_index - 1) % NUM_CHANNELS
                ELSE lp.active_channel_index
        ch   == IF down_edge(ks, {KEY_RIGHTBRACE})
                THEN (ch1 + 1) % NUM_CHANNELS ELSE ch1
        \* fill: set_and_send_pixel for every index, then send_show
        fill == down_edge(ks, {KEY_F})
        paF  == IF fill
                THEN [pa EXCEPT !.pixels = [i \in DOMAIN pa.pixels |->
                        IF i < lp.led_count
                        THEN Pixel_set_rgb8(pa.pixels[i], lp.selected_rgb[1],
                                            lp.selected_rgb[2], lp.selected_rgb[3])
                        ELSE pa.pixels[i]]]
                ELSE pa
        wF   == IF fill
                THEN [k \in 1..(2 * lp.led_count) |->
                        IF k % 2 = 1
                        THEN LET c == PixelArray_get_rgb8(paF, (k - 1) \div 2)
                             IN send_set_pixel((k - 1) \div 2, c[1], c[2], c[3])
                        ELSE send_show] \o <<send_show>>
                ELSE <<>>
        clr  == down_edge(ks, {KEY_C})
        paC  == IF clr THEN clear(paF) ELSE paF
        wC   == IF clr THEN SetPixelFrames(lp.led_count, 0, 0, 0) \o <<send_show>>
                ELSE <<>>
        gb1  == IF KEY_COMMA \in ks.pressed_keys
                THEN Max2(0, lp.global_brightness - step) ELSE lp.global_brightness
        wB1  == IF KEY_COMMA \in ks.pressed_keys
                THEN <<send_brightness(gb1), send_show>> ELSE <<>>
        gb2  == IF KEY_DOT \in ks.pressed_keys THEN Min2(255, gb1 + step) ELSE gb1
        wB2  == IF KEY_DOT \in ks.pressed_keys
                THEN <<send_brightness(gb2), send_show>> ELSE <<>>
        wS   == IF down_edge(ks, {KEY_SPACE}) THEN <<send_show>> ELSE <<>>
        inc  == KEY_EQUAL \in ks.pressed_keys \/ KEY_KPPLUS \in ks.pressed_keys
        dec  == KEY_MINUS \in ks.pressed_keys \/ KEY_KPMINUS \in ks.pressed_keys
        delta == IF inc THEN step ELSE 0 - step
        rgb  == lp.selected_rgb
        \* mono: `fv = selected_green = selected_blue = new_value`
        nv   == Clamp255(Max3(rgb) + delta)
        rgb2 == IF ~(inc \/ dec) THEN rgb
                ELSE IF mono THEN <<rgb[1], nv, nv>>
                ELSE IF ch = 0 THEN <<Clamp255(rgb[1] + delta), rgb[2], rgb[3]>>
                ELSE IF ch = 1 THEN <<rgb[1], Clamp255(rgb[2] + delta), rgb[3]>>
                ELSE <<rgb[1], rgb[2], Clamp255(rgb[3] + delta)>>
        paA  == IF inc \/ dec
                THEN set_selected_color(paC, rgb2[1], rgb2[2], rgb2[3]) ELSE paC
    IN [pa |-> paA,
        lp |-> [lp EXCEPT !.is_mono_mode = mono, !.active_channel_index = ch,
                          !.global_brightness = gb2, !.selected_rgb = rgb2,
                          !.pc = "move"],
        w  |-> wF \o wC \o wB1 \o wB2 \o wS]

Script_keys_quitlast(ks, pa, lp) ==
    LET a == Script_actions(ks, pa, lp)
        q == Script_quit(a.pa, a.lp)
    IN  IF (is_pressed(ks, {KEY_LEFTCTRL}) /\ is_pressed(ks, {KEY_C}))
             \/ down_edge(ks, {KEY_Q})
        THEN [pa |-> q.pa, lp |-> q.lp, w |-> a.w \o q.w]
        ELSE a

\* script: lines 205-272
Script_keys(ks, pa, lp) ==
    IF is_pressed(ks, {KEY_LEFTCTRL}) /\ is_pressed(ks, {KEY_C})
    THEN Script_quit(pa, lp)
    ELSE IF down_edge(ks, {KEY_Q}) THEN Script_quit(pa, lp)
    ELSE Script_actions(ks, pa, lp)

\* package: poll_keyboard lines 147-208.  Reading the local global_brightness
\* (line 171 / 175) before it is assigned, and the undefined name
\* is_mono_mode (line 198), raise: the loop is left by the exception.
Pkg_actions(ks, pa, lp) ==
    LET mono == IF down_edge(ks, {KEY_M}) THEN ~lp.is_mono_mode ELSE lp.is_mono_mode
        ch1  == IF down_edge(ks, {KEY_LEFTBRACE})
                THEN (lp.active_channel_index - 1) % NUM_CHANNELS
                ELSE lp.active_channel_index
        ch   == IF down_edge(ks, {KEY_RIGHTBRACE})
                THEN (ch1 + 1) % NUM_CHANNELS ELSE ch1
        lp1  == [lp EXCEPT !.is_mono_mode = mono, !.active_channel_index = ch]
        \* fill: fill_led is called once per index of range(DEFAULT_NUM_LEDS)
        fill == down_edge(ks, {KEY_F})
        paF  == IF fill THEN clear(pa) ELSE pa
        one  == fill_led_frames(pa.global_brightness, pa.selected_color[1],
                                pa.selected_color[2], pa.selected_color[3])
        wF   == IF fill
                THEN [k \in 1..(DEFAULT_NUM_LEDS * Len(one)) |->
                        one[((k - 1) % Len(one)) + 1]]
                ELSE <<>>
        clr  == down_edge(ks, {KEY_C})
        paC  == IF clr THEN clear(paF) ELSE paF
        wC   == IF clr
                THEN SetPixelFrames(DEFAULT_NUM_LEDS, 0, 0, 0) \o <<send_show>>
                ELSE <<>>
        bright == KEY_COMMA \in ks.pressed_keys \/ KEY_DOT \in ks.pressed_keys
        wS   == IF down_edge(ks, {KEY_SPACE}) THEN <<send_show>> ELSE <<>>
        inc  == KEY_EQUAL \in ks.pressed_keys \/ KEY_KPPLUS \in ks.pressed_keys
        dec  == KEY_MINUS \in ks.pressed_keys \/ KEY_KPMINUS \in ks.pressed_keys
    IN IF bright
       THEN [pa |-> paC, lp |-> [lp1 EXCEPT !.pc = "crashed"], w |-> wF \o wC]
       ELSE IF inc \/ dec
       THEN [pa |-> paC, lp |-> [lp1 EXCEPT !.pc = "crashed"], w |-> wF \o wC \o wS]
       ELSE [pa |-> paC, lp |-> [lp1 EXCEPT !.pc = "move"], w |-> wF \o wC \o wS]

\* package: the quit blocks of poll_keyboard (lines 139-145)
Pkg_quit(pa, lp) ==
    [pa |-> reset_led(pa).pa,
     lp |-> [lp EXCEPT !.pc = "quit"],
     w  |-> reset_led(pa).w]

\* package: poll_keyboard lines 138-208
Pkg_keys(ks, pa, lp) ==
    IF is_pressed(ks, {KEY_LEFTCTRL}) /\ is_pressed(ks, {KEY_C})
    THEN Pkg_quit(pa, lp)
    ELSE IF down_edge(ks, {KEY_Q}) THEN Pkg_quit(pa, lp)
    ELSE Pkg_actions(ks, pa, lp)

(***************************************************************************)
(* Step Move: the movement block.  st is [pa, lp].                          *)
(***************************************************************************)
\* script: run_ui.move_selection
Script_move_selection(st, delta_leds) ==
    LET new == (st.lp.selected_led_index + delta_leds) % st.lp.led_count
    IN [pa |-> set_selected_pixel(st.pa, new),
        lp |-> [st.lp EXCEPT !.selected_led_index = new]]

\* package: move_selection
Pkg_move_selection(st, delta_leds) ==
    LET current == get_selected_pixel(st.pa)
        new == (current + delta_leds) % DEFAULT_NUM_LEDS
    IN [pa |-> set_selected_pixel(st.pa, new), lp |-> st.lp]

move_selection(st, delta_leds) ==
    IF st.lp.variant = "script" THEN Script_move_selection(st, delta_leds)
    ELSE Pkg_move_selection(st, delta_leds)

MovementDeltas_symmetric(ks, mult) ==
    (IF KEY_LEFT \in ks.pressed_keys THEN <<0 - mult>> ELSE <<>>)
    \o (IF KEY_RIGHT \in ks.pressed_keys THEN <<mult>> ELSE <<>>)
    \o (IF KEY_UP \in ks.pressed_keys THEN <<STEP_UP * mult>> ELSE <<>>)
    \o (IF KEY_DOWN \in ks.pressed_keys THEN <<0 - STEP_UP * mult>> ELSE <<>>)

\* the deltas of one movement firing, in the order the code applies them
MovementDeltas(ks, mult) ==
    (IF KEY_LEFT \in ks.pressed_keys THEN <<0 - mult>> ELSE <<>>)
    \o (IF KEY_RIGHT \in ks.pressed_keys THEN <<mult>> ELSE <<>>)
    \o (IF KEY_UP \in ks.pressed_keys THEN <<STEP_UP * mult>> ELSE <<>>)
    \o (IF KEY_DOWN \in ks.pressed_keys THEN <<0 - STEP_DOWN * mult>> ELSE <<>>)

RECURSIVE ApplyMoves(_, _)
ApplyMoves(st, deltas) ==
    IF deltas = <<>> THEN st
    ELSE ApplyMoves(move_selection(st, Head(deltas)), Tail(deltas))

IsShiftDown(ks) ==
    is_pressed(ks, {KEY_LEFTSHIFT}) \/ is_pressed(ks, {KEY_RIGHTSHIFT})
IsCtrlDown(ks) ==
    is_pressed(ks, {KEY_LEFTCTRL}) \/ is_pressed(ks, {KEY_RIGHTCTRL})

StepMultiplier_product(ks) ==
    (IF IsShiftDown(ks) THEN SPEED_SHIFT ELSE 1)
        * (IF IsCtrlDown(ks) THEN SPEED_CTRL ELSE 1)

\* movement_step_multiplier
StepMultiplier(ks) ==
    IF IsCtrlDown(ks) THEN SPEED_CTRL
    ELSE IF IsShiftDown(ks) THEN SPEED_SHIFT ELSE 1

Movement_ungated(ks, pa, lp) ==
    LET deltas == MovementDeltas(ks, StepMultiplier(ks))
        moved  == ApplyMoves([pa |-> pa, lp |-> lp], deltas)
        i1 == lp.movement_repeat_interval \div (IF IsShiftDown(ks) THEN 2 ELSE 1)
        i2 == i1 \div (IF IsCtrlDown(ks) THEN 2 ELSE 1)
        next == IF deltas # <<>>
                THEN lp.clock + Max2(MIN_MOVEMENT_INTERVAL, i2)
                ELSE lp.clock + IDLE_CHECK_INTERVAL
    IN [pa |-> moved.pa,
        lp |-> [moved.lp EXCEPT !.next_movement_time = next, !.pc = "redraw"]]

Movement_ctrlnothalving(ks, pa, lp) ==
    IF lp.clock >= lp.next_movement_time
    THEN LET deltas == MovementDeltas(ks, StepMultiplier(ks))
             moved  == ApplyMoves([pa |-> pa, lp |-> lp], deltas)
             i1 == lp.movement_repeat_interval \div (IF IsShiftDown(ks) THEN 2 ELSE 1)
             next == IF deltas # <<>>
                     THEN lp.clock + Max2(MIN_MOVEMENT_INTERVAL, i1)
                     ELSE lp.clock + IDLE_CHECK_INTERVAL
         IN [pa |-> moved.pa,
             lp |-> [moved.lp EXCEPT !.next_movement_time = next, !.pc = "redraw"]]
    ELSE [pa |-> pa, lp |-> [lp EXCEPT !.pc = "redraw"]]

\* the movement block: script lines 276-305, package lines 211-240
Movement(ks, pa, lp) ==
    IF lp.clock >= lp.next_movement_time
    THEN LET deltas == MovementDeltas(ks, StepMultiplier(ks))
             moved  == ApplyMoves([pa |-> pa, lp |-> lp], deltas)
             i1 == lp.movement_repeat_interval \div (IF IsShiftDown(ks) THEN 2 ELSE 1)
             i2 == i1 \div (IF IsCtrlDown(ks) THEN 2 ELSE 1)
             next == IF deltas # <<>>
                     THEN lp.clock + Max2(MIN_MOVEMENT_INTERVAL, i2)
                     ELSE lp.clock + IDLE_CHECK_INTERVAL
         IN [pa |-> moved.pa,
             lp |-> [moved.lp EXCEPT !.next_movement_time = next, !.pc = "redraw"]]
    ELSE [pa |-> pa, lp |-> [lp EXCEPT !.pc = "redraw"]]

(***************************************************************************)
(* Step Redraw: the redraw / fade block, then the sleep.                    *)
(***************************************************************************)
DimStep_nofloor(lp) ==
    (255 * (lp.clock - lp.last_redraw_time)) \div MICROSECONDS

DimStep(lp) ==
    Max2(1, (255 * (lp.clock - lp.last_redraw_time)) \div MICROSECONDS)

DirtyFrames_everypixel(before, after, n) ==
    [k \in 1..n |->
       LET c == Pixel_get_rgb8(after[k - 1])
       IN send_set_pixel(after[k - 1].index, c[1], c[2], c[3])]

\* the SET_PIXEL frames of the pixels 0..n-1 whose 8-bit colour differs
\* between the arrays before and after, in index order
DirtyFrames(before, after, n) ==
    LET dirty == {i \in 0..(n - 1) :
                    Pixel_get_rgb8(after[i]) # Pixel_get_rgb8(before[i])}
        nth(k) == CHOOSE i \in dirty : Cardinality({j \in dirty : j < i}) = k - 1
    IN [k \in 1..Cardinality(dirty) |->
          LET c == Pixel_get_rgb8(after[nth(k)])
          IN send_set_pixel(after[nth(k)].index, c[1], c[2], c[3])]

\* script lines 309-345, package lines 305-340.  Returns [pa, lp, w].
Redraw(pa, lp) ==
    IF lp.clock >= lp.next_redraw_time
    THEN LET dim_step == DimStep(lp)
             dimmed == [i \in DOMAIN pa.pixels |-> Pixel_dim(pa.pixels[i], dim_step)]
             frames == DirtyFrames(pa.pixels, dimmed, pa.led_count)
         IN [pa |-> [pa EXCEPT !.pixels = dimmed],
             lp |-> [lp EXCEPT !.last_redraw_time = lp.clock,
                               !.next_redraw_time =
                                   lp.clock + MICROSECONDS \div Max2(1, lp.fps),
                               !.pc = "poll"],
             w  |-> IF frames # <<>> THEN frames \o <<send_show>> ELSE <<>>]
    ELSE [pa |-> pa, lp |-> [lp EXCEPT !.pc = "poll"], w |-> <<>>]

(***************************************************************************)
(* The actions of the control loop                                          *)
(***************************************************************************)
MaxTicks == 2   \* iterations of the loop in one run
MaxKeyEvents == 1  \* key events delivered by one device.read() in the loop

\* the time one iteration takes: the sleep alone, one redraw period, or a
\* stall of a whole fade time
TickDurations == {SLEEP_QUANTUM, MICROSECONDS \div DEFAULT_FPS, MICROSECONDS}
ShortOrLong == {SLEEP_QUANTUM, MICROSECONDS}

LoopEvents ==
    [type : {EV_KEY}, key : loop.kbd,
     keystate : {KEY_UP_STATE, KEY_DOWN_STATE, KEY_HOLD_STATE}]

\* key_state.poll() at the top of an iteration; the clock has advanced.
\* One read delivers up to max_events of the given events.  With keep, the
\* history record holds the batch and the keys pressed before the poll.
PollStep(events, max_events, keep) ==
    /\ loop.pc = "poll"
    /\ loop.ticks < MaxTicks
    /\ \E dt \in loop.durations :
       \E outcome \in {"select_error", "idle", "read"} :
       \E evs \in (IF outcome = "read" THEN SeqsUpTo(events, max_events)
                   ELSE {<<>>}) :
          /\ key_state' = poll(key_state, outcome, evs)
          /\ loop' = [loop EXCEPT !.clock = @ + dt, !.ticks = @ + 1, !.pc = "keys"]
          /\ op' = IF keep
                   THEN [MkOp("poll", <<outcome>>, key_state.pressed_keys)
                            EXCEPT !.evs = evs]
                   ELSE MkOp("poll", <<outcome>>, <<>>)
    /\ port' = [port EXCEPT !.writes = <<>>]
    /\ UNCHANGED <<px, pixel_array, nops>>

LoopPollWith(events, max_events) == PollStep(events, max_events, FALSE)

LoopPoll == LoopPollWith(LoopEvents, MaxKeyEvents)

\* what the key step of the running program computes: [pa, lp, w]
KeysStep(ks, pa, lp) ==
    IF lp.variant = "script" THEN Script_keys(ks, pa, lp) ELSE Pkg_keys(ks, pa, lp)

\* the index a SET_PIXEL frame addresses
FrameIndex(f) == f.payload[1] + U8_MASK * f.payload[2]

\* what the strip holds after the frames w reached it, shown being what it
\* held before: for each index the colour of the last SET_PIXEL frame for it
Shown(shown, w) ==
    [i \in DOMAIN shown |->
        LET ks == {k \in DOMAIN w :
                      w[k].cmd = CMD_SET_PIXEL /\ FrameIndex(w[k]) = i}
        IN IF ks = {} THEN shown[i]
           ELSE LET k == CHOOSE k1 \in ks : \A k2 \in ks : k2 <= k1
                IN <<w[k].payload[3], w[k].payload[4], w[k].payload[5]>>]

\* the history record of a loop step; with track it carries in `pre` what
\* the strip holds after the writes w of the step
LoopOp(name, arg, track, w) ==
    MkOp(name, arg, IF track THEN Shown(op.pre, w) ELSE <<>>)

KeysAction(track) ==
    /\ loop.pc = "keys"
    /\ LET r == KeysStep(key_state, pixel_array, loop)
       IN /\ pixel_array' = r.pa
          /\ port' = Transmit(port, r.w)
          /\ loop' = Propagate(r.lp, port'.error)
          /\ op' = LoopOp("keys", <<r.lp.pc>>, track, port'.writes)
    /\ UNCHANGED <<px, key_state, nops>>

LoopKeys == KeysAction(FALSE)

MoveAction(track) ==
    /\ loop.pc = "move"
    /\ LET r == Movement(key_state, pixel_array, loop)
       IN /\ pixel_array' = r.pa
          /\ loop' = r.lp
    /\ port' = [port EXCEPT !.writes = <<>>]
    /\ op' = LoopOp("move", <<pixel_array.selected_pixel_index>>, track, <<>>)
    /\ UNCHANGED <<px, key_state, nops>>

LoopMove == MoveAction(FALSE)

RedrawAction(track) ==
    /\ loop.pc = "redraw"
    /\ LET r == Redraw(pixel_array, loop)
       IN /\ pixel_array' = r.pa
          /\ port' = Transmit(port, r.w)
          /\ loop' = Propagate(r.lp, port'.error)
    /\ op' = LoopOp("redraw", <<>>, track, port'.writes)
    /\ UNCHANGED <<px, key_state, nops>>

LoopRedraw == RedrawAction(FALSE)

LoopNext == LoopPoll \/ LoopKeys \/ LoopMove \/ LoopRedraw

\* run_ui has reached `while True` on a port that accepts `remaining` more
\* writes, for some `remaining` in budgets
MainInitWith(variants, led_counts, kbd, durations, budgets) ==
    /\ px = Pixel_init(0, FALSE, FALSE, 0, 0, 0, 255)
    /\ key_state = KeyState_init
    /\ \E v \in variants, n \in led_counts, m \in budgets :
          /\ loop = LoopStart(v, n, DEFAULT_FPS, DEFAULT_STEP, kbd, durations)
          /\ pixel_array = ArrayAtLoopStart(n)
          /\ port = [writes |-> InitFrames(v, n), closed |-> FALSE,
                     remaining |-> m, error |-> FALSE]
    /\ op = NoOp
    /\ nops = 0

\* the same on a port that never raises
LoopInitWith(variants, led_counts, kbd, durations) ==
    MainInitWith(variants, led_counts, kbd, durations, {Unlimited})

\* SpecQuit: both programs, arrays of 1..MaxLeds pixels, a keyboard with the
\* quit keys, the clear key and one direction key
QuitInit ==
    LoopInitWith({"script", "package"}, 1..MaxLeds,
                 {KEY_Q, KEY_LEFTCTRL, KEY_C, KEY_RIGHT}, TickDurations)

SpecQuit == QuitInit /\ [][LoopNext]_vars

\* SpecMove: both programs, arrays of 2, 5 and 288 pixels, a keyboard with
\* the four direction keys
MoveInit ==
    LoopInitWith({"script", "package"}, {2, 5, DEFAULT_NUM_LEDS},
                 {KEY_LEFT, KEY_RIGHT, KEY_UP, KEY_DOWN}, ShortOrLong)

SpecMove == MoveInit /\ [][LoopNext]_vars

\* SpecFade: arrays of 1..MaxLeds pixels and ticks of any of the three
\* durations; the script with the fill key and a direction key, the package
\* (whose fill leaves the model black, so that nothing fades after it) with
\* two direction keys
FadeInit ==
    \/ LoopInitWith({"script"}, 1..MaxLeds, {KEY_F, KEY_RIGHT}, TickDurations)
    \/ LoopInitWith({"package"}, 1..MaxLeds, {KEY_LEFT, KEY_UP}, TickDurations)

SpecFade == FadeInit /\ [][LoopNext]_vars

\* SpecPress: a run in which one of the one-shot keys is pressed, held,
\* repeated and released, up to MaxPress events per read; both programs on an
\* array of two pixels (the package without the fill key: its fill is the
\* subject of SpecEdit)
MaxPress == 3

OneShotKeys ==
    {KEY_M, KEY_LEFTBRACE, KEY_RIGHTBRACE, KEY_F, KEY_C, KEY_SPACE}

PressInit ==
    \/ \E K \in OneShotKeys :
          LoopInitWith({"script"}, {2}, {K}, {SLEEP_QUANTUM})
    \/ \E K \in OneShotKeys \ {KEY_F} :
          LoopInitWith({"package"}, {2}, {K}, {SLEEP_QUANTUM})

PressPoll == PollStep(LoopEvents, MaxPress, TRUE)

PressNext == PressPoll \/ LoopKeys \/ LoopMove \/ LoopRedraw

SpecPress == PressInit /\ [][PressNext]_vars

\* SpecChord: both programs on the default array of 288 pixels, a keyboard
\* with a shift key, a control key and two direction keys, on which keys
\* are pressed and not released; one read delivers up to MaxChord presses,
\* so that a modifier chord with a direction is held within one tick.
MaxChord == 3

ChordKeys == {KEY_LEFTSHIFT, KEY_RIGHTCTRL, KEY_RIGHT, KEY_DOWN}

ChordEvents == [type : {EV_KEY}, key : loop.kbd, keystate : {KEY_DOWN_STATE}]

ChordInit ==
    LoopInitWith({"script", "package"}, {DEFAULT_NUM_LEDS}, ChordKeys, ShortOrLong)

ChordPoll == LoopPollWith(ChordEvents, MaxChord)

ChordNext == ChordPoll \/ LoopKeys \/ LoopMove \/ LoopRedraw

SpecChord == ChordInit /\ [][ChordNext]_vars

\* SpecStop: both programs on an array of two pixels; a keyboard with the
\* quit keys, the clear key and one key of another action, on which keys are
\* pressed and not released, up to MaxStopBatch presses per read, so that a
\* quit condition and another action's key come true in the same tick
MaxStopBatch == 2

QuitKeys == {KEY_Q, KEY_LEFTCTRL, KEY_C}

OtherActionKeys ==
    {KEY_M, KEY_RIGHTBRACE, KEY_F, KEY_COMMA, KEY_EQUAL, KEY_RIGHT}

StopInit ==
    \E K \in OtherActionKeys :
        LoopInitWith({"script", "package"}, {2}, QuitKeys \cup {K}, ShortOrLong)

StopPoll == PollStep(ChordEvents, MaxStopBatch, FALSE)

StopNext == StopPoll \/ LoopKeys \/ LoopMove \/ LoopRedraw

SpecStop == StopInit /\ [][StopNext]_vars

(***************************************************************************)
(* main: run_ui runs inside try/finally; when run_ui returns or an          *)
(* exception leaves it, the finally block closes the port and swallows an   *)
(* exception of close().                                                    *)
(***************************************************************************)
MaxGoodWrites == 3   \* most writes a failing port accepts inside the loop

ExitStates == {"quit", "crashed", "failed"}

\* the finally block of main: serial_port.close(), nothing else
MainFinally_close(p, raised) ==
    [p EXCEPT !.writes = <<>>, !.closed = ~raised]

MainFinally ==
    /\ loop.pc \in ExitStates
    /\ \E raised \in BOOLEAN :
          /\ port' = MainFinally_close(port, raised)
          /\ op' = MkOp("close", <<loop.pc, raised>>, <<>>)
    /\ loop' = [loop EXCEPT !.pc = "exited"]
    /\ UNCHANGED <<px, pixel_array, key_state, nops>>

MainNext == LoopNext \/ MainFinally

\* SpecMain: both programs on arrays of 1 and 2 pixels, a keyboard with the
\* quit key, the apply key, a brightness key and one direction key, and a
\* port that raises after 0..MaxGoodWrites writes or never
MainInit ==
    MainInitWith({"script", "package"}, {1, 2},
                 {KEY_Q, KEY_SPACE, KEY_COMMA, KEY_RIGHT}, ShortOrLong,
                 (0..MaxGoodWrites) \cup {Unlimited})

SpecMain == MainInit /\ [][MainNext]_vars

(***************************************************************************)
(* Specification SpecWire: the functions of pixel_protocol.py called on a  *)
(* port that accepts every write, with any arguments of the sets below.    *)
(***************************************************************************)
MaxCrcLen == 3   \* longest byte sequence given to compute_crc8 directly

WireIndices == {3, 259, 65535}
WireChannels == {0, 128, 255}
WireBrightness == {-300, -1, 0, 1, 64, 255, 256, 1000}
WireBytes == {0, 1, 128, 255}

WireInit ==
    /\ px = Pixel_init(0, FALSE, FALSE, 0, 0, 0, 255)
    /\ pixel_array = PixelArray_init(1)
    /\ loop = LoopNotStarted
    /\ port = PortIdle
    /\ key_state = KeyState_init
    /\ op = NoOp
    /\ nops = 0

\* one call of a send_* function: op.ret is the byte string of each write,
\* op.pre the byte strings of the call before
WireSend(name, arg, frame) ==
    /\ port' = Transmit(port, <<frame>>)
    /\ op' = [name |-> name, arg |-> arg, evs |-> <<>>,
              pre |-> IF op.name = name THEN op.ret ELSE <<>>,
              ret |-> [k \in 1..Len(port'.writes) |-> frame_bytes(port'.writes[k])]]
    /\ UNCHANGED <<px, pixel_array, key_state, loop, nops>>

SendSetPixel ==
    \E i \in WireIndices, r \in WireChannels, g \in WireChannels, b \in WireChannels :
        WireSend("send_set_pixel", <<i, r, g, b>>, send_set_pixel(i, r, g, b))

SendBrightness ==
    \E v \in WireBrightness :
        WireSend("send_brightness", <<v>>, send_brightness(v))

SendShow == WireSend("send_show", <<>>, send_show)

ComputeCrc8 ==
    /\ \E data \in SeqsUpTo(WireBytes, MaxCrcLen) :
          op' = [name |-> "compute_crc8", arg |-> data, evs |-> <<>>,
                 pre |-> <<>>, ret |-> compute_crc8(data)]
    /\ port' = [port EXCEPT !.writes = <<>>]
    /\ UNCHANGED <<px, pixel_array, key_state, loop, nops>>

WireNext == SendSetPixel \/ SendBrightness \/ SendShow \/ ComputeCrc8

SpecWire == WireInit /\ [][WireNext]_vars

(***************************************************************************)
(* Specification SpecKeys: a KeyState object polled any number of times.   *)
(***************************************************************************)
TrackedKeys == {"KEY_Q", "KEY_LEFTCTRL"}

Events ==
    [type : {EV_KEY}, key : TrackedKeys,
     keystate : {KEY_UP_STATE, KEY_DOWN_STATE, KEY_HOLD_STATE}]
    \cup {[type |-> EV_SYN, key |-> "", keystate |-> 0]}

Batches == SeqsUpTo(Events, MaxBatch)

\* the events device.read() yields before it raises: the error takes the
\* place of the last event of a batch
BatchesBeforeError == SeqsUpTo(Events, MaxBatch - 1)

IdleObjects ==
    /\ px = Pixel_init(0, FALSE, FALSE, 0, 0, 0, 255)
    /\ pixel_array = PixelArray_init(1)
    /\ loop = LoopNotStarted
    /\ port = PortIdle

KeysInit ==
    /\ IdleObjects
    /\ key_state = KeyState_init
    /\ op = NoOp
    /\ nops = 0

Poll ==
    /\ \E outcome \in {"select_error", "idle", "read", "read_error"} :
       \E evs \in (IF outcome = "read" THEN Batches
                   ELSE IF outcome = "read_error" THEN BatchesBeforeError
                   ELSE {<<>>}) :
          /\ key_state' = poll(key_state, outcome, evs)
          /\ op' = [name |-> "poll", arg |-> <<outcome>>, evs |-> evs,
                    pre |-> [pressed_keys |-> key_state.pressed_keys,
                             keys_pressed_this_tick |->
                                 key_state.keys_pressed_this_tick],
                    prev |-> op.name]
    /\ UNCHANGED <<px, pixel_array, loop, port, nops>>

KeysNext == Poll

SpecKeys == KeysInit /\ [][KeysNext]_vars

(***************************************************************************)
(* Specification SpecPixel: one Pixel object, constructed with any field   *)
(* values, on which set_rgb8, set_selected and dim are called.             *)
(***************************************************************************)
PixelInit ==
    /\ px \in {Pixel_init(0, a, s, r, g, b, br) :
                  a \in BOOLEAN, s \in BOOLEAN,
                  r \in {0, 10, 20}, g \in {0, 10, 300}, b \in {0, 10},
                  br \in {0, 300}}
    /\ pixel_array = PixelArray_init(1)
    /\ loop = LoopNotStarted
    /\ port = PortIdle
    /\ key_state = KeyState_init
    /\ op = NoOp
    /\ nops = 0

PxDim ==
    /\ nops < MaxPixelOps
    /\ \E amount \in {-1, 0, 1, 15, 255} :
          /\ px' = Pixel_dim(px, amount)
          /\ op' = MkOp("dim", <<amount>>, px)
    /\ nops' = nops + 1
    /\ UNCHANGED <<pixel_array, key_state, loop, port>>

PxSetSelected ==
    /\ nops < MaxPixelOps
    /\ \E is_selected \in BOOLEAN :
          /\ px' = Pixel_set_selected(px, is_selected)
          /\ op' = MkOp("set_selected", <<is_selected>>, px)
    /\ nops' = nops + 1
    /\ UNCHANGED <<pixel_array, key_state, loop, port>>

PxSetRgb8 ==
    /\ nops < MaxPixelOps
    /\ \E c \in {<<10, 10, 10>>, <<255, 0, 128>>, <<259, 0, -1>>} :
          /\ px' = Pixel_set_rgb8(px, c[1], c[2], c[3])
          /\ op' = MkOp("set_rgb8", c, px)
    /\ nops' = nops + 1
    /\ UNCHANGED <<pixel_array, key_state, loop, port>>

PixelNext == PxDim \/ PxSetSelected \/ PxSetRgb8

SpecPixel == PixelInit /\ [][PixelNext]_vars

(***************************************************************************)
(* Specification SpecArray: a PixelArray constructed with any led_count in *)
(* 1..MaxLeds, on which the operations of its interface are called.        *)
(***************************************************************************)
PenChoices == {<<-1, 10, 300>>, <<10, 10, 10>>, <<255, 0, 128>>}

ArrayInit ==
    /\ px = Pixel_init(0, FALSE, FALSE, 0, 0, 0, 255)
    /\ \E n \in 1..MaxLeds : pixel_array = PixelArray_init(n)
    /\ loop = LoopNotStarted
    /\ port = PortIdle
    /\ key_state = KeyState_init
    /\ op = NoOp
    /\ nops = 0

ArrayOp(name, arg, result) ==
    /\ nops < MaxOps
    /\ pixel_array' = result
    /\ op' = MkOp(name, arg, pixel_array)
    /\ nops' = nops + 1
    /\ UNCHANGED <<px, key_state, loop, port>>

SetSelectedPixel ==
    \E n \in (-1)..pixel_array.led_count :
        ArrayOp("set_selected_pixel", <<n>>, set_selected_pixel(pixel_array, n))

SetSelectedColor ==
    \E c \in PenChoices :
        ArrayOp("set_selected_color", c,
                set_selected_color(pixel_array, c[1], c[2], c[3]))

ApplySelectedColorTo ==
    \E i \in 0..(pixel_array.led_count - 1) :
        ArrayOp("apply_selected_color_to", <<i>>,
                apply_selected_color_to(pixel_array, i))

SetRgb8 ==
    \E i \in 0..(pixel_array.led_count - 1) :
        ArrayOp("set_rgb8", <<i, 259, 0, 7>>,
                PixelArray_set_rgb8(pixel_array, i, 259, 0, 7))

Clear == ArrayOp("clear", <<>>, clear(pixel_array))

\* px.dim(amount) on one pixel of the array (what the redraw does to each)
Dim ==
    \E i \in 0..(pixel_array.led_count - 1), amount \in {0, 15, 255} :
        ArrayOp("dim", <<i, amount>>,
                [pixel_array EXCEPT !.pixels[i] = Pixel_dim(@, amount)])

ArrayNext ==
    \/ SetSelectedPixel
    \/ SetSelectedColor
    \/ ApplySelectedColorTo
    \/ SetRgb8
    \/ Clear
    \/ Dim

SpecArray == ArrayInit /\ [][ArrayNext]_vars

(***************************************************************************)
(* Properties of KeyState  (checked under SpecKeys)                        *)
(***************************************************************************)
IsDownEv(e, K) ==
    e.type = EV_KEY /\ e.key = K /\ e.keystate \in {KEY_DOWN_STATE, KEY_HOLD_STATE}
IsUpEv(e, K) == e.type = EV_KEY /\ e.key = K /\ e.keystate = KEY_UP_STATE

\* K is held just before the j-th event of a batch delivered to a tracker
\* whose pressed set was `before`
HeldBefore(K, before, evs, j) ==
    LET prior == {i \in 1..(j - 1) : IsDownEv(evs[i], K) \/ IsUpEv(evs[i], K)}
    IN IF prior = {} THEN K \in before
       ELSE LET last == CHOOSE i \in prior : \A i2 \in prior : i2 <= i
            IN IsDownEv(evs[last], K)

\* the batch takes K from unpressed to pressed at some event
PressTransition(K, before, evs) ==
    \E j \in 1..Len(evs) : IsDownEv(evs[j], K) /\ ~HeldBefore(K, before, evs, j)

\* C1: down_edge(K) is true after a poll only if that poll took K from
\* unpressed to pressed; on a poll during which K stays held (no UP for K,
\* REPEAT or DOWN events for K allowed) down_edge(K) is false and
\* is_pressed(K) stays true; on a poll after release that delivers no
\* DOWN/REPEAT for K, down_edge(K) is false.
C1_DownEdgeOnlyOnPress ==
    [][op'.name = "poll" =>
        \A K \in TrackedKeys :
            /\ down_edge(key_state', {K}) =>
                    PressTransition(K, key_state.pressed_keys, op'.evs)
            /\ (is_pressed(key_state, {K})
                    /\ \A j \in 1..Len(op'.evs) : ~IsUpEv(op'.evs[j], K))
                  => (~down_edge(key_state', {K}) /\ is_pressed(key_state', {K}))
            /\ (~is_pressed(key_state, {K})
                    /\ \A j \in 1..Len(op'.evs) : ~IsDownEv(op'.evs[j], K))
                  => ~down_edge(key_state', {K})]_vars

\* a poll that delivered a REPEAT for a key held before and after it, and
\* reported no down edge for it
C1_Witness ==
    /\ op.name = "poll"
    /\ \E K \in TrackedKeys :
          /\ K \in op.pre.pressed_keys
          /\ \E j \in 1..Len(op.evs) :
                op.evs[j] = [type |-> EV_KEY, key |-> K, keystate |-> KEY_HOLD_STATE]
          /\ \A j \in 1..Len(op.evs) : ~IsUpEv(op.evs[j], K)
          /\ is_pressed(key_state, {K})
          /\ ~down_edge(key_state, {K})

(***************************************************************************)
(* Properties of Pixel  (checked under SpecPixel)                          *)
(***************************************************************************)
\* C5: for a pixel that is not selected and not already dark-and-inactive,
\* dim(amount) with amount >= 1 sets each channel c to max(0, c - amount) and
\* clears is_active exactly when all three channels end at 0 (otherwise
\* is_active is as before).
C5_DimSubtractsAndFloors ==
    [][(/\ op'.name = "dim"
        /\ op'.arg[1] >= 1
        /\ ~px.is_selected
        /\ ~(~px.is_active /\ px.r = 0 /\ px.g = 0 /\ px.b = 0))
       => LET a == op'.arg[1]
              nr == IF px.r - a > 0 THEN px.r - a ELSE 0
              ng == IF px.g - a > 0 THEN px.g - a ELSE 0
              nb == IF px.b - a > 0 THEN px.b - a ELSE 0
          IN /\ px'.r = nr /\ px'.g = ng /\ px'.b = nb
             /\ px'.is_active =
                    (IF nr = 0 /\ ng = 0 /\ nb = 0 THEN FALSE ELSE px.is_active)]_vars

\* dim(15) on the active, non-selected pixel (10,10,10) gave (0,0,0), inactive
C5_Witness ==
    /\ op.name = "dim"
    /\ op.arg = <<15>>
    /\ op.pre.r = 10 /\ op.pre.g = 10 /\ op.pre.b = 10
    /\ op.pre.is_active /\ ~op.pre.is_selected
    /\ px.r = 0 /\ px.g = 0 /\ px.b = 0
    /\ ~px.is_active

(***************************************************************************)
(* Properties of PixelArray  (checked under SpecArray)                     *)
(***************************************************************************)
SelectedSet(pa) == {i \in DOMAIN pa.pixels : pa.pixels[i].is_selected}

\* C2 as stated: every call set_selected_pixel(n) leaves pixel n mod led_count
\* the only selected pixel, and coloured with the pen colour.
C2_EveryCallPaints ==
    [][op'.name = "set_selected_pixel" =>
        LET n == op'.arg[1] % pixel_array.led_count
        IN /\ SelectedSet(pixel_array') = {n}
           /\ PixelArray_get_rgb8(pixel_array', n) = pixel_array'.selected_color]_vars

\* C2 (amended): a call set_selected_pixel(n) with n mod led_count different
\* from the selected index moves the flag once (the old pixel loses it, pixel
\* n mod led_count gains it, no other flag changes) and leaves the new pixel
\* coloured with the pen colour; a call with n mod led_count equal to the
\* selected index changes nothing.
C2_MovePaintsElseNoop ==
    [][op'.name = "set_selected_pixel" =>
        LET n   == op'.arg[1] % pixel_array.led_count
            old == pixel_array.selected_pixel_index
        IN IF n = old
           THEN pixel_array' = pixel_array
           ELSE /\ pixel_array.pixels[old].is_selected
                /\ ~pixel_array'.pixels[old].is_selected
                /\ ~pixel_array.pixels[n].is_selected
                /\ pixel_array'.pixels[n].is_selected
                /\ \A i \in DOMAIN pixel_array.pixels \ {old, n} :
                      pixel_array'.pixels[i].is_selected
                          = pixel_array.pixels[i].is_selected
                /\ pixel_array'.selected_pixel_index = n
                /\ PixelArray_get_rgb8(pixel_array', n)
                       = pixel_array'.selected_color]_vars

\* a set_selected_pixel call that moved the selection onto a pixel whose
\* colour was not the pen colour before
C2_Witness ==
    /\ op.name = "set_selected_pixel"
    /\ op.pre.selected_pixel_index # pixel_array.selected_pixel_index
    /\ PixelArray_get_rgb8(op.pre, pixel_array.selected_pixel_index)
          # pixel_array.selected_color
    /\ PixelArray_get_rgb8(pixel_array, pixel_array.selected_pixel_index)
          = pixel_array.selected_color

\* C3: exactly one pixel is selected, it is pixels[selected_pixel_index], and
\* 0 <= selected_pixel_index < led_count.
C3_ExactlyOneSelected ==
    /\ pixel_array.selected_pixel_index \in 0..(pixel_array.led_count - 1)
    /\ SelectedSet(pixel_array) = {pixel_array.selected_pixel_index}
    /\ Cardinality(SelectedSet(pixel_array)) = 1

\* the selection wrapped from index 0 to the last pixel of an array of
\* several pixels, after other operations
C3_Witness ==
    /\ op.name = "set_selected_pixel"
    /\ op.arg = <<-1>>
    /\ op.pre.selected_pixel_index = 0
    /\ pixel_array.led_count > 1
    /\ pixel_array.selected_pixel_index = pixel_array.led_count - 1
    /\ nops > 1

SelectedBrightness(pa) == pa.pixels[pa.selected_pixel_index].brightness

\* C4 as stated: the selected pixel's brightness is 255 in every state.
C4_SelectedBrightnessPinned == SelectedBrightness(pixel_array) = 255

\* C4 (amended): the selected pixel's brightness is 255 after construction
\* and after every set_selected_pixel that moves the selection, and every
\* operation other than clear() keeps it; clear() sets it to 0.
C4_PinnedUntilClear ==
    /\ (op.name = "init" => SelectedBrightness(pixel_array) = 255)
    /\ [][/\ op'.name = "clear" => SelectedBrightness(pixel_array') = 0
          /\ (op'.name = "set_selected_pixel"
                 /\ pixel_array'.selected_pixel_index
                        # pixel_array.selected_pixel_index)
               => SelectedBrightness(pixel_array') = 255
          /\ op'.name # "clear"
               => SelectedBrightness(pixel_array')
                    \in {255, SelectedBrightness(pixel_array)}
          /\ (op'.name # "clear" /\ SelectedBrightness(pixel_array) = 255)
               => SelectedBrightness(pixel_array') = 255]_vars

\* the selection moved after a clear(): the new selected pixel is at 255
\* although the array had been cleared
C4_Witness ==
    /\ op.name = "set_selected_pixel"
    /\ op.prev = "clear"
    /\ SelectedBrightness(op.pre) = 0
    /\ op.pre.selected_pixel_index # pixel_array.selected_pixel_index
    /\ SelectedBrightness(pixel_array) = 255

\* C9: clear() sets is_active = false, r = g = b = 0 and brightness = 0 on
\* every pixel, leaves selected_pixel_index, every is_selected flag, the pen
\* colour, led_count and the global brightness unchanged, and a clear() that
\* directly follows a clear() leaves the whole array as it was.
C9_ClearEffectIdempotent ==
    [][op'.name = "clear" =>
        /\ DOMAIN pixel_array'.pixels = DOMAIN pixel_array.pixels
        /\ \A i \in DOMAIN pixel_array.pixels :
              /\ ~pixel_array'.pixels[i].is_active
              /\ pixel_array'.pixels[i].r = 0
              /\ pixel_array'.pixels[i].g = 0
              /\ pixel_array'.pixels[i].b = 0
              /\ pixel_array'.pixels[i].brightness = 0
              /\ pixel_array'.pixels[i].is_selected
                    = pixel_array.pixels[i].is_selected
              /\ pixel_array'.pixels[i].index = pixel_array.pixels[i].index
        /\ pixel_array'.selected_pixel_index = pixel_array.selected_pixel_index
        /\ pixel_array'.selected_color = pixel_array.selected_color
        /\ pixel_array'.led_count = pixel_array.led_count
        /\ pixel_array'.global_brightness = pixel_array.global_brightness
        /\ (op.name = "clear" => pixel_array' = pixel_array)]_vars

\* a second clear() in a row, on an array whose selection had been moved
\* (and its destination painted) before the first
C9_Witness ==
    /\ op.name = "clear"
    /\ op.prev = "clear"
    /\ op.pre = pixel_array
    /\ pixel_array.selected_pixel_index # 0

(***************************************************************************)
(* Properties of the control loop                                          *)
(***************************************************************************)
DirectionKeys == {KEY_LEFT, KEY_RIGHT, KEY_UP, KEY_DOWN}

MovementFires == loop.pc = "move" /\ loop.clock >= loop.next_movement_time
RedrawFires == loop.pc = "redraw" /\ loop.clock >= loop.next_redraw_time

\* C6: a redraw firing (which calls dim(dim_step) on every pixel) leaves the
\* selected pixel exactly as it was (r, g, b, is_active, brightness,
\* is_selected), whatever dim_step is, and writes no SET_PIXEL frame for it.
C6_RedrawSparesSelected ==
    [][RedrawFires =>
        \A i \in DOMAIN pixel_array.pixels :
            pixel_array.pixels[i].is_selected =>
                /\ pixel_array'.pixels[i] = pixel_array.pixels[i]
                /\ \A k \in 1..Len(port'.writes) :
                      port'.writes[k].cmd = CMD_SET_PIXEL =>
                          <<port'.writes[k].payload[1], port'.writes[k].payload[2]>>
                              # <<i % U8_MASK, (i \div U8_MASK) % U8_MASK>>]_vars

\* a redraw has just fired that faded another pixel to black while the
\* selected pixel still has the pen colour and is not black
C6_Witness ==
    /\ op.name = "redraw"
    /\ loop.last_redraw_time = loop.clock
    /\ port.writes # <<>>
    /\ PixelArray_get_rgb8(pixel_array, pixel_array.selected_pixel_index)
          = pixel_array.selected_color
    /\ pixel_array.selected_color # <<0, 0, 0>>

\* C7: in a 288-pixel array, a movement firing with speed multiplier 1 and
\* exactly one direction key held takes the selected index i to
\* (i-1) mod 288 for LEFT, (i+1) mod 288 for RIGHT, (i+5) mod 288 for UP and
\* (i-9) mod 288 for DOWN; from i = 0 these are 287, 1, 5 and 279.
C7_SingleDirectionStep288 ==
    [][(/\ MovementFires
        /\ pixel_array.led_count = 288
        /\ StepMultiplier(key_state) = 1
        /\ Cardinality(key_state.pressed_keys \cap DirectionKeys) = 1)
       => LET i == pixel_array.selected_pixel_index
              j == pixel_array'.selected_pixel_index
          IN /\ KEY_LEFT \in key_state.pressed_keys =>
                    (j = (i - 1) % 288 /\ (i = 0 => j = 287))
             /\ KEY_RIGHT \in key_state.pressed_keys =>
                    (j = (i + 1) % 288 /\ (i = 0 => j = 1))
             /\ KEY_UP \in key_state.pressed_keys =>
                    (j = (i + 5) % 288 /\ (i = 0 => j = 5))
             /\ KEY_DOWN \in key_state.pressed_keys =>
                    (j = (i - 9) % 288 /\ (i = 0 => j = 279))
             /\ pixel_array'.pixels[j].is_selected]_vars

\* a movement firing with only DOWN held took a 288-pixel array from index 0
\* to index 279
C7_Witness ==
    /\ op.name = "move"
    /\ op.arg = <<0>>
    /\ pixel_array.led_count = 288
    /\ key_state.pressed_keys = {KEY_DOWN}
    /\ pixel_array.selected_pixel_index = 279

RECURSIVE SumSeq(_)
SumSeq(q) == IF q = <<>> THEN 0 ELSE Head(q) + SumSeq(Tail(q))

\* C8: for every led_count, a movement firing that moves the selection from
\* index i by delta (the sum of the deltas of the held direction keys)
\* leaves selected_pixel_index = (i + delta) mod led_count.
C8_MoveWrapsModLedCount ==
    [][MovementFires =>
        pixel_array'.selected_pixel_index
          = (pixel_array.selected_pixel_index
               + SumSeq(MovementDeltas(key_state, StepMultiplier(key_state))))
            % pixel_array.led_count]_vars

QuitCondition(ks) ==
    (is_pressed(ks, {KEY_LEFTCTRL}) /\ is_pressed(ks, {KEY_C}))
        \/ down_edge(ks, {KEY_Q})

\* C10: on an iteration where the quit chord is held or the quit key has a
\* down edge, the loop writes exactly SET_PIXEL(i,0,0,0) for i = 0..led_count-1
\* followed by one SHOW and no other frame, leaves every pixel of the model
\* black, and returns; no later step runs.
C10_QuitEmitsBlackout ==
    [][/\ (loop.pc = "keys" /\ QuitCondition(key_state)) =>
            /\ port'.writes
                  = [k \in 1..(pixel_array.led_count + 1) |->
                       IF k <= pixel_array.led_count
                       THEN [cmd |-> CMD_SET_PIXEL,
                             payload |-> <<(k - 1) % 256, (k - 1) \div 256, 0, 0, 0>>]
                       ELSE [cmd |-> CMD_SHOW, payload |-> <<>>]]
            /\ \A i \in DOMAIN pixel_array'.pixels :
                  Pixel_get_rgb8(pixel_array'.pixels[i]) = <<0, 0, 0>>
            /\ loop'.pc = "quit"
       /\ loop.pc = "quit" => loop'.pc = "quit"]_vars

(***************************************************************************)
(* Properties of main and of transport failures  (checked under SpecMain)  *)
(***************************************************************************)
\* C11: whenever main's finally block runs, the loop was left through a quit
\* block (which attempts the blackout sequence), and the block leaves the
\* port closed.
C11_EveryExitBlacksOutAndCloses ==
    [][op'.name = "close" =>
          /\ op.name = "keys"
          /\ op.arg = <<"quit">>
          /\ port'.closed]_vars

\* C12: a write that raises leaves the loop at once (pc "failed"); from then
\* on no tick runs and no frame is written (the write is not retried): the
\* only step left is main's finally block, which writes nothing.
C12_WriteFailureIsFatal ==
    [][/\ (port'.error /\ ~port.error) => /\ loop'.pc = "failed"
                                          /\ loop'.ticks = loop.ticks
                                          /\ port'.remaining = 0
       /\ loop.pc = "failed" => /\ op'.name = "close"
                                /\ loop'.pc = "exited"
                                /\ loop'.ticks = loop.ticks
                                /\ port'.writes = <<>>
                                /\ port'.remaining = port.remaining
       /\ loop.pc = "exited" => UNCHANGED vars]_vars

\* the program has ended after a step that wrote some of its frames and then
\* had a write raise
C12_Witness ==
    /\ loop.pc = "exited"
    /\ op.name = "close"
    /\ op.arg[1] = "failed"
    /\ op.prev \in {"keys", "redraw"}
    /\ port.error
    /\ port.remaining = 0
    /\ port.writes = <<>>

(***************************************************************************)
(* Properties of the wire format  (checked under SpecWire)                 *)
(***************************************************************************)
\* the reference CRC-8: the message, MSB first, followed by eight zero bits,
\* is divided by x^8 + x^2 + x + 1 (polynomial 0x07) over GF(2); the
\* checksum is the remainder (initial value 0, no final XOR)
GeneratorBits == <<1, 0, 0, 0, 0, 0, 1, 1, 1>>

ByteBits(v) == [i \in 1..8 |-> (v \div (2 ^ (8 - i))) % 2]

RECURSIVE MessageBits(_)
MessageBits(data) ==
    IF data = <<>> THEN <<>> ELSE ByteBits(Head(data)) \o MessageBits(Tail(data))

RECURSIVE PolyRemainder(_, _)
PolyRemainder(bits, i) ==
    IF i > Len(bits) - 8 THEN SubSeq(bits, Len(bits) - 7, Len(bits))
    ELSE IF bits[i] = 0 THEN PolyRemainder(bits, i + 1)
    ELSE PolyRemainder(
            [k \in 1..Len(bits) |->
                IF k \in i..(i + 8)
                THEN (bits[k] + GeneratorBits[k - i + 1]) % 2
                ELSE bits[k]],
            i + 1)

RECURSIVE BitsValue(_)
BitsValue(bits) ==
    IF bits = <<>> THEN 0
    ELSE 2 * BitsValue(SubSeq(bits, 1, Len(bits) - 1)) + bits[Len(bits)]

RefCrc8(data) ==
    BitsValue(PolyRemainder(MessageBits(data) \o <<0, 0, 0, 0, 0, 0, 0, 0>>, 1))

\* C13: the SET_PIXEL frame of (index, r, g, b), index in 0..65535 and r, g, b
\* in 0..255, is one write of A5 5A 10 05 00, index low byte, index high
\* byte, r, g, b and the CRC8 of the eight bytes from the command byte to b.
C13_SetPixelFrameBytes ==
    op.name = "send_set_pixel" =>
        LET lo == op.arg[1] % 256
            hi == op.arg[1] \div 256
            body == <<16, 5, 0, lo, hi, op.arg[2], op.arg[3], op.arg[4]>>
        IN op.ret = << <<165, 90>> \o body \o <<RefCrc8(body)>> >>

\* send_set_pixel(3, 255, 0, 128) wrote A5 5A 10 05 00 03 00 FF 00 80 99
C13_Witness ==
    /\ op.name = "send_set_pixel"
    /\ op.arg = <<3, 255, 0, 128>>
    /\ op.ret = << <<165, 90, 16, 5, 0, 3, 0, 255, 0, 128, 153>> >>

\* C14: the SHOW frame is A5 5A 04 00 00 followed by the CRC8 of 04 00 00,
\* written as one transport write.
C14_ShowFrameBytes ==
    op.name = "send_show" =>
        /\ Len(port.writes) = 1
        /\ op.ret = << <<165, 90, 4, 0, 0, RefCrc8(<<4, 0, 0>>)>> >>

\* send_show wrote A5 5A 04 00 00 AB
C14_Witness ==
    /\ op.name = "send_show"
    /\ port.writes = <<send_show>>
    /\ op.ret = << <<165, 90, 4, 0, 0, 171>> >>

\* C15: the BRIGHTNESS frame of any integer value is A5 5A 13 01 00, the
\* value clamped to 0..255, and the CRC8 of 13 01 00 and that byte.
C15_BrightnessFrameBytes ==
    op.name = "send_brightness" =>
        LET v == IF op.arg[1] < 0 THEN 0 ELSE IF op.arg[1] > 255 THEN 255 ELSE op.arg[1]
        IN op.ret = << <<165, 90, 19, 1, 0, v, RefCrc8(<<19, 1, 0, v>>)>> >>

\* send_brightness(1000) wrote the payload byte FF
C15_Witness ==
    /\ op.name = "send_brightness"
    /\ op.arg = <<1000>>
    /\ Len(op.ret) = 1
    /\ SubSeq(op.ret[1], 1, 6) = <<165, 90, 19, 1, 0, 255>>

\* C16: compute_crc8 equals the reference CRC-8 and lies in 0..255; the last
\* byte of every frame is the reference CRC-8 of the frame without its two
\* start-of-frame bytes and without the checksum itself.
C16_Crc8IsReference ==
    /\ op.name = "compute_crc8" =>
            /\ op.ret = RefCrc8(op.arg)
            /\ op.ret \in 0..255
    /\ op.name \in {"send_set_pixel", "send_brightness", "send_show"} =>
            \A k \in 1..Len(op.ret) :
                LET fr == op.ret[k]
                IN /\ SubSeq(fr, 1, 2) = <<165, 90>>
                   /\ fr[Len(fr)] = RefCrc8(SubSeq(fr, 3, Len(fr) - 1))
                   /\ fr[Len(fr)] \in 0..255

\* compute_crc8 of the three bytes 80 FF 01 returned 0xDB
C16_Witness ==
    /\ op.name = "compute_crc8"
    /\ op.arg = <<128, 255, 1>>
    /\ op.ret = 219

\* C17: two SET_PIXEL frames with the same payload carry the same checksum,
\* and two SET_PIXEL frames whose payloads differ in exactly one byte carry
\* different checksums.
C17_Crc8SingleByteSensitive ==
    (op.name = "send_set_pixel" /\ op.pre # <<>>) =>
        LET a == op.pre[1]
            b == op.ret[1]
            diff == {k \in 6..10 : a[k] # b[k]}
        IN /\ diff = {} => a[11] = b[11]
           /\ Cardinality(diff) = 1 => a[11] # b[11]

\* two consecutive SET_PIXEL frames that differ only in the red byte (00 and
\* 80) and carry different checksums
C17_Witness ==
    /\ op.name = "send_set_pixel"
    /\ op.pre # <<>>
    /\ {k \in 6..10 : op.pre[1][k] # op.ret[1][k]} = {8}
    /\ op.pre[1][8] = 0
    /\ op.ret[1][8] = 128
    /\ op.pre[1][11] # op.ret[1][11]

(***************************************************************************)
(* Further properties of KeyState  (checked under SpecKeys)                *)
(***************************************************************************)
PollFailed == op'.name = "poll" /\ op'.arg[1] \in {"select_error", "read_error"}

KeysOf(evs) == {evs[j].key : j \in {i \in 1..Len(evs) : evs[i].type = EV_KEY}}

\* C18 as stated: a poll during which the device raises leaves pressed_keys
\* and both edge sets exactly as they were before the poll.
C18_ErrorLeavesStateAsIs ==
    [][PollFailed => key_state' = key_state]_vars

\* C18 (amended): a poll during which the device raises returns normally;
\* the edge sets of the poll before are cleared; keys without an event read
\* before the error keep their membership in pressed_keys and are in no edge
\* set; when no key event was read before the error (always so for an error
\* of the readiness check) pressed_keys is unchanged and both edge sets are
\* empty.
C18_ErrorKeepsPressedClearsEdges ==
    [][PollFailed =>
        LET read == KeysOf(op'.evs)
        IN /\ key_state'.keys_pressed_this_tick \subseteq read
           /\ key_state'.keys_released_this_tick \subseteq read
           /\ \A K \in TrackedKeys \ read :
                  (K \in key_state'.pressed_keys) = (K \in key_state.pressed_keys)
           /\ read = {} =>
                  /\ key_state'.pressed_keys = key_state.pressed_keys
                  /\ key_state'.keys_pressed_this_tick = {}
                  /\ key_state'.keys_released_this_tick = {}]_vars

\* the readiness check raised in the poll after the one that pressed a key:
\* the key is still pressed, its down edge is gone
C18_Witness ==
    /\ op.name = "poll"
    /\ op.arg = <<"select_error">>
    /\ op.pre.keys_pressed_this_tick # {}
    /\ op.pre.pressed_keys # {}
    /\ key_state.pressed_keys = op.pre.pressed_keys
    /\ key_state.keys_pressed_this_tick = {}
    /\ key_state.keys_released_this_tick = {}

UpEvents(K, evs) == {j \in 1..Len(evs) : IsUpEv(evs[j], K)}

\* C19 as stated: after a poll that processed an UP event of K, K is not in
\* pressed_keys and K is in keys_released_this_tick, whether or not K was
\* pressed before.
C19_UpAlwaysReleases ==
    [][(op'.name = "poll" /\ op'.arg[1] \in {"read", "read_error"}) =>
        \A K \in TrackedKeys :
            UpEvents(K, op'.evs) # {} =>
                /\ K \notin key_state'.pressed_keys
                /\ K \in key_state'.keys_released_this_tick]_vars

\* C19 (amended): an UP event of K that finds K in pressed_keys removes it
\* and puts K into keys_released_this_tick, where it stays until the next
\* poll; an UP event of K that finds K not in pressed_keys changes nothing.
\* So after the poll K is in keys_released_this_tick exactly if some UP
\* event of the poll found K pressed, and K is not in pressed_keys if the
\* last event of K in the poll is an UP.
C19_UpReleasesPressedKey ==
    [][(op'.name = "poll" /\ op'.arg[1] \in {"read", "read_error"}) =>
        \A K \in TrackedKeys :
            LET ups == UpEvents(K, op'.evs)
                effective == {j \in ups :
                                HeldBefore(K, key_state.pressed_keys, op'.evs, j)}
            IN /\ (K \in key_state'.keys_released_this_tick) = (effective # {})
               /\ (ups # {} /\ \A j \in 1..Len(op'.evs) :
                                  IsDownEv(op'.evs[j], K) =>
                                      \E u \in ups : u > j)
                     => K \notin key_state'.pressed_keys]_vars

\* a poll released a key that was pressed before it
C19_Witness ==
    /\ op.name = "poll"
    /\ op.arg = <<"read">>
    /\ \E K \in TrackedKeys :
          /\ K \in op.pre.pressed_keys
          /\ UpEvents(K, op.evs) # {}
          /\ K \notin key_state.pressed_keys
          /\ K \in key_state.keys_released_this_tick

(***************************************************************************)
(* Further properties of PixelArray  (checked under SpecArray)             *)
(***************************************************************************)
ClampChannel(x) == IF x < 0 THEN 0 ELSE IF x > 255 THEN 255 ELSE x

\* C20: set_selected_color(r, g, b) stores each channel clamped on its own to
\* 0..255 and changes nothing else (no pixel, not the selection, not the
\* global brightness); every channel of selected_color is in 0..255 in
\* every state.
C20_PenClampedPixelsUntouched ==
    /\ [](\A k \in 1..3 : pixel_array.selected_color[k] \in 0..255)
    /\ [][op'.name = "set_selected_color" =>
            /\ pixel_array'.selected_color =
                  <<ClampChannel(op'.arg[1]), ClampChannel(op'.arg[2]),
                    ClampChannel(op'.arg[3])>>
            /\ pixel_array'.pixels = pixel_array.pixels
            /\ pixel_array'.selected_pixel_index = pixel_array.selected_pixel_index
            /\ pixel_array'.global_brightness = pixel_array.global_brightness
            /\ pixel_array'.led_count = pixel_array.led_count]_vars

\* set_selected_color(-1, 10, 300) on an array with a lit pixel stored
\* (0, 10, 255) and left the pixels as they were
C20_Witness ==
    /\ op.name = "set_selected_color"
    /\ op.arg = <<-1, 10, 300>>
    /\ pixel_array.selected_color = <<0, 10, 255>>
    /\ pixel_array.pixels = op.pre.pixels
    /\ \E i \in DOMAIN pixel_array.pixels :
          Pixel_get_rgb8(pixel_array.pixels[i]) # <<0, 0, 0>>

(***************************************************************************)
(* The active flag of a pixel  (checked under SpecArray)                   *)
(***************************************************************************)
IsBlack(p) == Pixel_get_rgb8(p) = <<0, 0, 0>>

\* C21: a pixel's is_active flag is true from the moment the pixel is painted
\* (by set_selected_pixel's paint of its destination, apply_selected_color_to
\* or set_rgb8) with a colour that is not black, stays as it is while a dim
\* leaves the pixel lit, and is false once a dim has left the pixel black.
C21_ActiveFromPaintUntilBlack ==
    [][/\ op'.name \in {"set_rgb8", "apply_selected_color_to"} =>
            LET q == pixel_array'.pixels[op'.arg[1]]
            IN  ~IsBlack(q) => q.is_active
       /\ (op'.name = "set_selected_pixel"
             /\ pixel_array'.selected_pixel_index
                    # pixel_array.selected_pixel_index) =>
            LET q == pixel_array'.pixels[pixel_array'.selected_pixel_index]
            IN  ~IsBlack(q) => q.is_active
       /\ op'.name = "dim" =>
            LET p == pixel_array.pixels[op'.arg[1]]
                q == pixel_array'.pixels[op'.arg[1]]
            IN  q.is_active = (p.is_active /\ ~IsBlack(q))]_vars

(***************************************************************************)
(* Specification SpecEdit: both programs on an array of two pixels, with    *)
(* the default --step and a large one, and a keyboard with the fill, clear, *)
(* brightness, pen and mode keys and the left control key.                  *)
(***************************************************************************)
AdjustSteps == {DEFAULT_STEP, 200}

EditKeys ==
    {KEY_F, KEY_C, KEY_LEFTCTRL, KEY_COMMA, KEY_DOT, KEY_EQUAL, KEY_MINUS,
     KEY_M, KEY_RIGHTBRACE}

EditInit ==
    /\ px = Pixel_init(0, FALSE, FALSE, 0, 0, 0, 255)
    /\ key_state = KeyState_init
    /\ \E v \in {"script", "package"}, step \in AdjustSteps :
          /\ loop = LoopStart(v, 2, DEFAULT_FPS, step, EditKeys, {SLEEP_QUANTUM})
          /\ pixel_array = ArrayAtLoopStart(2)
          /\ port = [writes |-> InitFrames(v, 2), closed |-> FALSE,
                     remaining |-> Unlimited, error |-> FALSE]
    /\ op = NoOp
    /\ nops = 0

SpecEdit == EditInit /\ [][LoopNext]_vars

\* the pen colour of the running program: the script keeps it in
\* selected_red/green/blue, the package in pixel_array.selected_color
PenColour(pa, lp) ==
    IF lp.variant = "script" THEN lp.selected_rgb ELSE pa.selected_color

\* the key step runs the action blocks (neither quit condition holds)
KeysStepActs == loop.pc = "keys" /\ ~QuitCondition(key_state)

\* C22: on a tick with a down edge of the fill key (and none of the clear
\* key), the key step leaves every pixel 0..led_count-1 of the model with the
\* pen colour, writes a SET_PIXEL frame carrying the pen colour for every
\* index, and the frames it writes end with a SHOW.  Stated on the state in
\* which the key step is about to run, about the result the step computes.
C22_FillPaintsEveryPixel ==
    (KeysStepActs /\ down_edge(key_state, {KEY_F})
                  /\ ~down_edge(key_state, {KEY_C})) =>
        LET pen == PenColour(pixel_array, loop)
            r   == KeysStep(key_state, pixel_array, loop)
        IN  /\ \A i \in 0..(loop.led_count - 1) :
                  /\ Pixel_get_rgb8(r.pa.pixels[i]) = pen
                  /\ \E k \in DOMAIN r.w :
                        r.w[k] = send_set_pixel(i, pen[1], pen[2], pen[3])
            /\ r.w # <<>>
            /\ r.w[Len(r.w)] = send_show

\* C23: on a tick with a down edge of the clear key while neither quit
\* condition holds (and no other key of the step that writes frames), the key
\* step writes SET_PIXEL(i,0,0,0) for i = 0..led_count-1 followed by one SHOW,
\* leaves every pixel of the model black and the selected index unchanged,
\* and the loop goes on to the movement step of the same tick.
C23_ClearBlacksOutAndGoesOn ==
    [][(/\ KeysStepActs
        /\ down_edge(key_state, {KEY_C})
        /\ ~down_edge(key_state, {KEY_F})
        /\ ~down_edge(key_state, {KEY_SPACE})
        /\ ~is_pressed(key_state, {KEY_COMMA})
        /\ ~is_pressed(key_state, {KEY_DOT})) =>
          /\ port'.writes
                = SetPixelFrames(loop.led_count, 0, 0, 0) \o <<send_show>>
          /\ \A i \in DOMAIN pixel_array'.pixels : IsBlack(pixel_array'.pixels[i])
          /\ pixel_array'.selected_pixel_index = pixel_array.selected_pixel_index
          /\ loop'.pc = "move"]_vars

NoFrameEdge ==
    /\ ~down_edge(key_state, {KEY_F})
    /\ ~down_edge(key_state, {KEY_C})
    /\ ~down_edge(key_state, {KEY_SPACE})

\* C24: global brightness is within 0..255 in every state; on every tick in
\* which the dim key is in pressed_keys it becomes max(0, old - step) and a
\* BRIGHTNESS frame with the new value and a SHOW are written, and then, if
\* the brighten key is in pressed_keys, it becomes min(255, that + step) and
\* again BRIGHTNESS and SHOW are written; this happens on every such tick,
\* whether or not the key was pressed in it.
C24_HeldBrightnessKeysStep ==
    /\ [](loop.global_brightness \in 0..255)
    /\ [][(/\ KeysStepActs
           /\ NoFrameEdge
           /\ (is_pressed(key_state, {KEY_COMMA})
                  \/ is_pressed(key_state, {KEY_DOT}))) =>
             LET step == loop.adjustment_step
                 dim  == is_pressed(key_state, {KEY_COMMA})
                 up   == is_pressed(key_state, {KEY_DOT})
                 gb1  == IF dim THEN Max2(0, loop.global_brightness - step)
                         ELSE loop.global_brightness
                 gb2  == IF up THEN Min2(255, gb1 + step) ELSE gb1
             IN  /\ loop'.global_brightness = gb2
                 /\ port'.writes
                      = (IF dim THEN <<send_brightness(gb1), send_show>> ELSE <<>>)
                        \o (IF up THEN <<send_brightness(gb2), send_show>> ELSE <<>>)
                 /\ loop'.pc = "move"]_vars

IncreaseHeld(ks) == KEY_EQUAL \in ks.pressed_keys \/ KEY_KPPLUS \in ks.pressed_keys
DecreaseHeld(ks) == KEY_MINUS \in ks.pressed_keys \/ KEY_KPMINUS \in ks.pressed_keys

\* +step when an increase key is held, otherwise -step
AdjustDelta(ks, lp) ==
    IF IncreaseHeld(ks) THEN lp.adjustment_step ELSE 0 - lp.adjustment_step

\* C25: on every tick in which an increase or decrease key is held and the
\* program is in mono mode (after the mode toggle of that tick), the key step
\* sets all three pen channels to clamp(max(r,g,b) + delta, 0, 255), so that
\* afterwards pen r = g = b.
C25_MonoAdjustKeepsChannelsEqual ==
    [][(/\ KeysStepActs
        /\ IncreaseHeld(key_state) \/ DecreaseHeld(key_state)
        /\ loop'.is_mono_mode) =>
          LET old == PenColour(pixel_array, loop)
              nv  == Clamp255(Max3(old) + AdjustDelta(key_state, loop))
          IN  PenColour(pixel_array', loop') = <<nv, nv, nv>>]_vars

\* C26: on every tick in which an increase or decrease key is held and the
\* program is in colour mode (after the toggles of that tick), the key step
\* changes only the active pen channel, to clamp(old + delta, 0, 255); the
\* other two pen channels are unchanged and, fill and clear aside, no pixel
\* of the model is modified.
C26_ColourAdjustMovesActiveChannel ==
    [][(/\ KeysStepActs
        /\ IncreaseHeld(key_state) \/ DecreaseHeld(key_state)
        /\ ~loop'.is_mono_mode) =>
          LET old == PenColour(pixel_array, loop)
              ch  == loop'.active_channel_index + 1
          IN  /\ PenColour(pixel_array', loop')
                   = [old EXCEPT ![ch] =
                         Clamp255(old[ch] + AdjustDelta(key_state, loop))]
              /\ NoFrameEdge => pixel_array'.pixels = pixel_array.pixels]_vars

(***************************************************************************)
(* Movement with modifiers  (checked under SpecChord)                       *)
(***************************************************************************)
\* the sum of the unit deltas of the held direction keys
DirectionSum(ks) ==
    (IF KEY_LEFT \in ks.pressed_keys THEN -1 ELSE 0)
    + (IF KEY_RIGHT \in ks.pressed_keys THEN 1 ELSE 0)
    + (IF KEY_UP \in ks.pressed_keys THEN 5 ELSE 0)
    + (IF KEY_DOWN \in ks.pressed_keys THEN -9 ELSE 0)

\* the multiplier when the control tier takes precedence over the shift tier
TierMultiplier(ks) ==
    IF IsCtrlDown(ks) THEN 12 ELSE IF IsShiftDown(ks) THEN 3 ELSE 1

\* the multiplier when the two tiers multiply
ProductMultiplier(ks) ==
    (IF IsShiftDown(ks) THEN 3 ELSE 1) * (IF IsCtrlDown(ks) THEN 12 ELSE 1)

\* C27 (as stated): the movement multiplier is 1 with no modifier, 3 with a
\* shift key, 12 with a control key, and the product 3 * 12 when a shift key
\* and a control key are both held: a movement firing moves the selection by
\* that multiplier times the sum of the unit deltas of the held directions.
C27_TiersMultiply ==
    [][MovementFires =>
          pixel_array'.selected_pixel_index
             = (pixel_array.selected_pixel_index
                  + ProductMultiplier(key_state) * DirectionSum(key_state))
               % pixel_array.led_count]_vars

\* C27 (amended): the movement multiplier is 12 whenever a control key is
\* held (with or without shift), 3 when a shift key and no control key is
\* held, and 1 otherwise: a movement firing on the 288-pixel array moves the
\* selection by that multiplier times the sum of the unit deltas of the held
\* directions, modulo led_count.
C27_CtrlTierOverridesShift ==
    [][MovementFires =>
          pixel_array'.selected_pixel_index
             = (pixel_array.selected_pixel_index
                  + TierMultiplier(key_state) * DirectionSum(key_state))
               % pixel_array.led_count]_vars

\* a movement has fired with shift, control and KEY_RIGHT held and moved the
\* selection from 0 to 12
C27_Witness ==
    /\ op.name = "move"
    /\ op.arg = <<0>>
    /\ IsShiftDown(key_state) /\ IsCtrlDown(key_state)
    /\ key_state.pressed_keys
          = {KEY_LEFTSHIFT, KEY_RIGHTCTRL, KEY_RIGHT}
    /\ pixel_array.selected_pixel_index = 12

\* C28: in one movement firing with any subset of the four direction keys
\* held and multiplier m, every held direction applies in that tick: the
\* selected index afterwards is (i + m * (sum of the deltas of the held
\* directions)) mod led_count, with deltas LEFT -1, RIGHT +1, UP +5, DOWN -9.
C28_HeldDirectionsAddUp ==
    [][MovementFires =>
          LET i == pixel_array.selected_pixel_index
              m == StepMultiplier(key_state)
          IN  /\ pixel_array'.selected_pixel_index
                    = (i + m * DirectionSum(key_state)) % loop.led_count
              /\ loop.variant = "script" =>
                    loop'.selected_led_index = pixel_array'.selected_pixel_index]_vars

\* C29 (times in microseconds): a movement firing at time t leaves
\* next_movement_time = t + max(2 ms, base / (2 if a shift key is held, else 1)
\* / (2 if a control key is held, else 1)) with base = 1/60 s when at least
\* one direction key is held, and t + 5 ms when none is; a tick in which the
\* movement does not fire leaves next_movement_time as it is.
C29_NextMovementTime ==
    [][/\ MovementFires =>
            LET t    == loop.clock
                base == 1000000 \div 60
                half == base \div (IF IsShiftDown(key_state) THEN 2 ELSE 1)
                both == half \div (IF IsCtrlDown(key_state) THEN 2 ELSE 1)
            IN  loop'.next_movement_time
                  = IF key_state.pressed_keys \cap DirectionKeys # {}
                    THEN t + Max2(2000, both)
                    ELSE t + 5000
       /\ (loop.pc = "move" /\ ~MovementFires) =>
            loop'.next_movement_time = loop.next_movement_time]_vars

\* a movement has fired with shift, control and a direction key held: the
\* next one is due a quarter of 1/60 s later
C29_Witness ==
    /\ op.name = "move"
    /\ IsShiftDown(key_state) /\ IsCtrlDown(key_state)
    /\ KEY_DOWN \in key_state.pressed_keys
    /\ loop.next_movement_time = loop.clock + 4166

(***************************************************************************)
(* The frames of a redraw  (checked under SpecFade)                         *)
(***************************************************************************)
\* the pixels whose 8-bit colour differs between two arrays
ChangedPixels(before, after) ==
    {i \in DOMAIN before.pixels :
        Pixel_get_rgb8(after.pixels[i]) # Pixel_get_rgb8(before.pixels[i])}

\* C30: a redraw firing writes one SET_PIXEL frame, carrying the new colour,
\* for each pixel whose 8-bit colour the dim step changed and for no other
\* pixel; if some pixel changed, exactly one SHOW follows the last SET_PIXEL
\* and nothing else is written; if no pixel changed, and in a tick whose
\* redraw does not fire, nothing is written.
C30_RedrawSendsChangedPixels ==
    [][/\ RedrawFires =>
            LET changed == ChangedPixels(pixel_array, pixel_array')
                w == port'.writes
            IN  IF changed = {} THEN w = <<>>
                ELSE /\ Len(w) = Cardinality(changed) + 1
                     /\ w[Len(w)] = send_show
                     /\ \A k \in 1..(Len(w) - 1) : w[k].cmd = CMD_SET_PIXEL
                     /\ \A i \in changed :
                           LET c == Pixel_get_rgb8(pixel_array'.pixels[i])
                           IN \E k \in 1..(Len(w) - 1) :
                                 w[k] = send_set_pixel(i, c[1], c[2], c[3])
       /\ (loop.pc = "redraw" /\ ~RedrawFires) => port'.writes = <<>>]_vars

\* a redraw of a three-pixel array has dimmed two pixels and left the third
\* as it was: two SET_PIXEL frames and one SHOW were written
C30_Witness ==
    /\ op.name = "redraw"
    /\ pixel_array.led_count = 3
    /\ Len(port.writes) = 3
    /\ port.writes[1].cmd = CMD_SET_PIXEL
    /\ port.writes[2].cmd = CMD_SET_PIXEL
    /\ port.writes[3] = send_show
    /\ \E i \in DOMAIN pixel_array.pixels : ~IsBlack(pixel_array.pixels[i])

(***************************************************************************)
(* Specification SpecDecay: one pixel of the array, painted once and left   *)
(* unselected, on which every redraw firing calls dim(dim_step) with the    *)
(* step the loop computes from the time since the last redraw.              *)
(***************************************************************************)
MaxFirings == 257   \* redraw firings in one run

DecayColours == {<<255, 255, 255>>, <<255, 0, 128>>, <<0, 7, 0>>, <<0, 0, 0>>}

DecayInit ==
    /\ px = Pixel_init(0, FALSE, FALSE, 0, 0, 0, 255)
    /\ pixel_array = PixelArray_init(1)
    /\ loop = LoopNotStarted
    /\ port = PortIdle
    /\ key_state = KeyState_init
    /\ op = NoOp
    /\ nops = 0

\* the paint: set_rgb8 with the pen colour
DecayPaint ==
    /\ op.name = "init"
    /\ \E c \in DecayColours :
          /\ px' = Pixel_set_rgb8(px, c[1], c[2], c[3])
          /\ op' = MkOp("set_rgb8", c, px)
    /\ UNCHANGED <<pixel_array, key_state, loop, port, nops>>

\* one redraw firing, dt after the previous one
DecayFiring ==
    /\ op.name # "init"
    /\ nops < MaxFirings
    /\ \E dt \in TickDurations :
          LET dim_step == DimStep([loop EXCEPT !.clock = loop.last_redraw_time + dt])
          IN  /\ px' = Pixel_dim(px, dim_step)
              /\ op' = MkOp("dim", <<dim_step>>, px)
    /\ nops' = nops + 1
    /\ UNCHANGED <<pixel_array, key_state, loop, port>>

DecayNext == DecayPaint \/ DecayFiring

SpecDecay == DecayInit /\ [][DecayNext]_vars

\* C31: the dim amount of every redraw firing is at least 1; a firing leaves
\* a non-selected pixel that is not black with a strictly smaller maximum
\* channel; a pixel that a firing leaves black is inactive, and a black
\* inactive pixel is left unchanged by every later firing; after 255 firings
\* the pixel is (0,0,0) and inactive.
C31_FadeReachesBlack ==
    /\ [](nops >= 255 => (IsBlack(px) /\ ~px.is_active))
    /\ [][op'.name = "dim" =>
             /\ op'.arg[1] >= 1
             /\ ~IsBlack(px) =>
                   Max3(Pixel_get_rgb8(px')) < Max3(Pixel_get_rgb8(px))
             /\ IsBlack(px') => ~px'.is_active
             /\ (IsBlack(px) /\ ~px.is_active) => px' = px]_vars

\* the 255th firing was the one that took a white pixel to black
C31_Witness ==
    /\ op.name = "dim"
    /\ nops = 255
    /\ Pixel_get_rgb8(op.pre) = <<1, 1, 1>>
    /\ IsBlack(px)

(***************************************************************************)
(* Specification SpecSched: both programs on an array of three pixels, with *)
(* the default --fps and a faster one, a keyboard with two direction keys,  *)
(* and ticks that take the sleep alone or a hundredth of a second, so that  *)
(* either schedule comes due without the other.                             *)
(***************************************************************************)
SchedFps == {DEFAULT_FPS, 200}
SchedDurations == {SLEEP_QUANTUM, MICROSECONDS \div 100}

SchedInit ==
    /\ px = Pixel_init(0, FALSE, FALSE, 0, 0, 0, 255)
    /\ key_state = KeyState_init
    /\ \E v \in {"script", "package"}, fps \in SchedFps :
          /\ loop = LoopStart(v, 3, fps, DEFAULT_STEP, {KEY_LEFT, KEY_RIGHT},
                              SchedDurations)
          /\ pixel_array = ArrayAtLoopStart(3)
          /\ port = [writes |-> InitFrames(v, 3), closed |-> FALSE,
                     remaining |-> Unlimited, error |-> FALSE]
    /\ op = NoOp
    /\ nops = 0

SpecSched == SchedInit /\ [][LoopNext]_vars

\* C32: the selection changes only in a movement step whose clock has reached
\* next_movement_time; pixels fade and redraw frames are written only in a
\* redraw step whose clock has reached next_redraw_time; the movement step
\* leaves next_redraw_time and last_redraw_time unchanged and the redraw step
\* leaves next_movement_time and the selection unchanged.
C32_SchedulesAreIndependent ==
    [][/\ (pixel_array'.selected_pixel_index # pixel_array.selected_pixel_index)
              => MovementFires
       /\ loop.pc = "move" =>
              /\ loop'.next_redraw_time = loop.next_redraw_time
              /\ loop'.last_redraw_time = loop.last_redraw_time
              /\ ~MovementFires =>
                    /\ pixel_array' = pixel_array
                    /\ loop'.next_movement_time = loop.next_movement_time
       /\ loop.pc = "redraw" =>
              /\ loop'.next_movement_time = loop.next_movement_time
              /\ ~RedrawFires =>
                    /\ pixel_array' = pixel_array
                    /\ port'.writes = <<>>
                    /\ loop'.next_redraw_time = loop.next_redraw_time
                    /\ loop'.last_redraw_time = loop.last_redraw_time]_vars

\* a second tick in which the redraw fired although the movement, with a
\* direction key held since the first tick, was not yet due
C32_Witness ==
    /\ op.name = "redraw"
    /\ loop.ticks = 2
    /\ KEY_RIGHT \in key_state.pressed_keys
    /\ loop.last_redraw_time = loop.clock
    /\ loop.next_movement_time > loop.clock
    /\ loop.next_movement_time < loop.clock + MIN_MOVEMENT_INTERVAL * 4
    /\ pixel_array.selected_pixel_index = 1

\* a tick in which the movement fired although the redraw was not yet due
C32_WitnessMoveOnly ==
    /\ op.name = "redraw"
    /\ loop.ticks = 2
    /\ loop.last_redraw_time < loop.clock
    /\ loop.next_movement_time > loop.clock
    /\ pixel_array.selected_pixel_index = 1
    /\ port.writes = <<>>

(***************************************************************************)
(* One-shot actions and key presses  (checked under SpecPress)              *)
(***************************************************************************)
\* the number of events of a batch that take key K from not pressed to
\* pressed (DOWN or auto-repeat while K is not tracked as pressed); `held`
\* tells whether K is pressed before the batch
RECURSIVE PressTransitions(_, _, _)
PressTransitions(held, evs, K) ==
    IF evs = <<>> THEN 0
    ELSE LET e == Head(evs)
         IN  IF e.type # EV_KEY \/ e.key # K
             THEN PressTransitions(held, Tail(evs), K)
             ELSE IF e.keystate = KEY_UP_STATE
             THEN PressTransitions(FALSE, Tail(evs), K)
             ELSE (IF held THEN 0 ELSE 1) + PressTransitions(TRUE, Tail(evs), K)

\* a batch a keyboard can produce when K is held or not before it: DOWN only
\* of a key that is up, auto-repeat and UP only of a key that is down
RECURSIVE PhysicalBatch(_, _, _)
PhysicalBatch(held, evs, K) ==
    IF evs = <<>> THEN TRUE
    ELSE LET e == Head(evs)
         IN  IF e.type # EV_KEY \/ e.key # K
             THEN PhysicalBatch(held, Tail(evs), K)
             ELSE IF e.keystate = KEY_DOWN_STATE
             THEN ~held /\ PhysicalBatch(TRUE, Tail(evs), K)
             ELSE IF e.keystate = KEY_UP_STATE
             THEN held /\ PhysicalBatch(FALSE, Tail(evs), K)
             ELSE held /\ PhysicalBatch(TRUE, Tail(evs), K)

\* what the key step about to run did, seen from the frames it wrote
FillFired ==
    \E k \in DOMAIN port'.writes :
        /\ port'.writes[k].cmd = CMD_SET_PIXEL
        /\ SubSeq(port'.writes[k].payload, 3, 5) = PenColour(pixel_array, loop)
ClearFired ==
    \E k \in DOMAIN port'.writes :
        /\ port'.writes[k].cmd = CMD_SET_PIXEL
        /\ SubSeq(port'.writes[k].payload, 3, 5) = <<0, 0, 0>>
ShowNowFired == port'.writes = <<send_show>>

\* the key step runs right after a poll whose batch is on record
KeysStepAfterPoll == KeysStepActs /\ op.name = "poll"

\* C33 (as stated): every one-shot action fires once per physical press of
\* its key, so n presses of the key trigger it n times: after a poll whose
\* batch holds n presses of the mode key the mode has been toggled n times,
\* and after n presses of a channel key the channel has moved n places.
C33_OncePerPhysicalPress ==
    [][(KeysStepAfterPoll
          /\ \A K \in OneShotKeys : PhysicalBatch(K \in op.pre, op.evs, K)) =>
          LET n(K) == PressTransitions(K \in op.pre, op.evs, K)
          IN  /\ loop'.is_mono_mode
                   = (IF n(KEY_M) % 2 = 1 THEN ~loop.is_mono_mode
                      ELSE loop.is_mono_mode)
              /\ loop'.active_channel_index
                   = (loop.active_channel_index + n(KEY_RIGHTBRACE)
                        - n(KEY_LEFTBRACE)) % NUM_CHANNELS]_vars

\* C33 (amended): every one-shot action fires once in each tick whose poll
\* took its key from not pressed to pressed at least once, and in no other
\* tick: a key held across ticks, with or without auto-repeat events,
\* triggers the action once, and presses that arrive in different polls
\* trigger it once each, while several presses of the key drained by one
\* poll trigger it once.
C33_OncePerPollWithPress ==
    [][KeysStepAfterPoll =>
          LET hit(K) == PressTransitions(K \in op.pre, op.evs, K) >= 1
          IN  /\ \A K \in OneShotKeys : down_edge(key_state, {K}) <=> hit(K)
              /\ (loop'.is_mono_mode # loop.is_mono_mode) <=> hit(KEY_M)
              /\ loop'.active_channel_index
                   = (loop.active_channel_index
                        + (IF hit(KEY_RIGHTBRACE) THEN 1 ELSE 0)
                        - (IF hit(KEY_LEFTBRACE) THEN 1 ELSE 0)) % NUM_CHANNELS
              /\ FillFired <=> hit(KEY_F)
              /\ ClearFired <=> hit(KEY_C)
              /\ ShowNowFired <=> hit(KEY_SPACE)]_vars

\* the second tick of a run in which the mode key went down in the first
\* tick and is still held: the mode was toggled once
C33_Witness ==
    /\ op.name = "keys"
    /\ loop.ticks = 2
    /\ KEY_M \in key_state.pressed_keys
    /\ ~down_edge(key_state, {KEY_M})
    /\ loop.is_mono_mode

(***************************************************************************)
(* The quit check comes first  (checked under SpecStop)                     *)
(***************************************************************************)
\* C34: on a tick where the quit condition holds, the key step only quits:
\* the mode, the active channel, the pen, the brightness, the selection and
\* the two timers are left as they are, the frames written are those of the
\* quit block (black SET_PIXEL frames, SHOW, and in the package a BRIGHTNESS
\* frame with the unchanged brightness), and neither the movement nor the
\* redraw of that tick runs; in particular the clear key with the left
\* control key held quits.
C34_QuitComesFirst ==
    /\ [](loop.pc = "quit" => (op.name = "keys" /\ op.arg = <<"quit">>))
    /\ [][(loop.pc = "keys" /\ QuitCondition(key_state)) =>
             /\ loop' = [loop EXCEPT !.pc = "quit"]
             /\ pixel_array'.selected_color = pixel_array.selected_color
             /\ pixel_array'.selected_pixel_index = pixel_array.selected_pixel_index
             /\ pixel_array'.global_brightness = pixel_array.global_brightness
             /\ \A k \in DOMAIN port'.writes :
                   \/ port'.writes[k] = send_show
                   \/ port'.writes[k] = send_brightness(pixel_array.global_brightness)
                   \/ /\ port'.writes[k].cmd = CMD_SET_PIXEL
                      /\ SubSeq(port'.writes[k].payload, 3, 5) = <<0, 0, 0>>]_vars

\* the loop has quit on a tick in which the quit key and the mode key both
\* went down: the mode was not toggled
C34_Witness ==
    /\ loop.pc = "quit"
    /\ down_edge(key_state, {KEY_Q})
    /\ down_edge(key_state, {KEY_M})
    /\ ~loop.is_mono_mode

\* the loop has quit on a tick in which the clear key went down with the
\* left control key held
C34_WitnessChord ==
    /\ loop.pc = "quit"
    /\ down_edge(key_state, {KEY_C})
    /\ is_pressed(key_state, {KEY_LEFTCTRL})
    /\ ~down_edge(key_state, {KEY_Q})

(***************************************************************************)
(* The byte stream of a run  (checked under SpecMain)                       *)
(***************************************************************************)
\* the bytes of one write are one complete frame: the two start bytes, a
\* known command with its length, the payload and the CRC8 of command,
\* length and payload
WholeFrame(b) ==
    /\ Len(b) >= 6
    /\ b[1] = 165 /\ b[2] = 90
    /\ \/ b[3] = 16 /\ b[4] = 5
       \/ b[3] = 19 /\ b[4] = 1
       \/ b[3] = 4 /\ b[4] = 0
    /\ b[5] = 0
    /\ Len(b) = 6 + b[4]
    /\ \A j \in 1..Len(b) : b[j] \in 0..255
    /\ b[Len(b)] = RefCrc8(SubSeq(b, 3, Len(b) - 1))

\* C35: every write handed to the transport, before the loop and in every
\* step of it, is one complete frame (A5 5A, a command 0x10, 0x13 or 0x04 with
\* length 5, 1 or 0, the payload, a correct CRC8), and every SET_PIXEL frame
\* carries an index in 0..led_count-1.
C35_StreamIsWholeValidFrames ==
    \A k \in DOMAIN port.writes :
        LET b == frame_bytes(port.writes[k])
        IN  /\ WholeFrame(b)
            /\ b[3] = 16 => b[6] + 256 * b[7] < loop.led_count


(***************************************************************************)
(* C36  (checked under SpecArray)                                          *)
(***************************************************************************)
Colour(p) == <<p.r, p.g, p.b>>

\* C36: set_selected_pixel(n) changes the colour of no pixel other than the
\* new selected pixel: the old selected pixel keeps its r, g, b and only
\* loses the selected flag (so that dim acts on it again), every other pixel
\* is left as it was; and a call whose n mod led_count is the selected index
\* changes nothing at all, whatever the pen colour is by then.
C36_OnlyTheNewPixelIsRecoloured ==
    [][op'.name = "set_selected_pixel" =>
        LET n   == op'.arg[1] % pixel_array.led_count
            old == pixel_array.selected_pixel_index
        IN /\ \A i \in DOMAIN pixel_array.pixels \ {n} :
                 Colour(pixel_array'.pixels[i]) = Colour(pixel_array.pixels[i])
           /\ \A i \in DOMAIN pixel_array.pixels \ {n, old} :
                 pixel_array'.pixels[i] = pixel_array.pixels[i]
           /\ n # old =>
                 /\ ~pixel_array'.pixels[old].is_selected
                 /\ pixel_array'.pixels[old].is_active
                        = pixel_array.pixels[old].is_active
                 /\ \A a \in {15, 255} :
                       Colour(pixel_array'.pixels[old]) # <<0, 0, 0>> =>
                           Pixel_dim(pixel_array'.pixels[old], a)
                               # pixel_array'.pixels[old]
           /\ n = old => pixel_array' = pixel_array]_vars

\* the selection moved away from a pixel that carried a colour: the pixel is
\* no longer selected and still has that colour
C36_Witness ==
    /\ op.name = "set_selected_pixel"
    /\ op.pre.selected_pixel_index # pixel_array.selected_pixel_index
    /\ Colour(op.pre.pixels[op.pre.selected_pixel_index]) # <<0, 0, 0>>
    /\ Colour(pixel_array.pixels[op.pre.selected_pixel_index])
           = Colour(op.pre.pixels[op.pre.selected_pixel_index])
    /\ ~pixel_array.pixels[op.pre.selected_pixel_index].is_selected

\* a call naming the pixel already selected, made after the pen colour was
\* changed: the selected pixel keeps its former colour
C36_WitnessSameIndex ==
    /\ op.name = "set_selected_pixel"
    /\ op.arg[1] % pixel_array.led_count = op.pre.selected_pixel_index
    /\ Colour(op.pre.pixels[op.pre.selected_pixel_index])
           # op.pre.selected_color
    /\ pixel_array = op.pre


(***************************************************************************)
(* Specification SpecSync: the runs of SpecFade, with the history record    *)
(* keeping, in `pre`, the colour last written to the strip for each pixel   *)
(* of the array.                                                            *)
(***************************************************************************)
SyncInit ==
    /\ px = Pixel_init(0, FALSE, FALSE, 0, 0, 0, 255)
    /\ key_state = KeyState_init
    /\ \E v \in {"script", "package"}, n \in 1..MaxLeds :
          /\ loop = LoopStart(v, n, DEFAULT_FPS, DEFAULT_STEP,
                              IF v = "script" THEN {KEY_F, KEY_RIGHT}
                              ELSE {KEY_LEFT, KEY_UP},
                              TickDurations)
          /\ pixel_array = ArrayAtLoopStart(n)
          /\ port = [writes |-> InitFrames(v, n), closed |-> FALSE,
                     remaining |-> Unlimited, error |-> FALSE]
          /\ op = [NoOp EXCEPT !.pre =
                      Shown([i \in 0..(n - 1) |-> <<0, 0, 0>>], InitFrames(v, n))]
    /\ nops = 0

SyncPoll ==
    /\ loop.pc = "poll"
    /\ loop.ticks < MaxTicks
    /\ \E dt \in loop.durations :
       \E outcome \in {"select_error", "idle", "read"} :
       \E evs \in (IF outcome = "read" THEN SeqsUpTo(LoopEvents, MaxKeyEvents)
                   ELSE {<<>>}) :
          /\ key_state' = poll(key_state, outcome, evs)
          /\ loop' = [loop EXCEPT !.clock = @ + dt, !.ticks = @ + 1, !.pc = "keys"]
          /\ op' = LoopOp("poll", <<outcome>>, TRUE, <<>>)
    /\ port' = [port EXCEPT !.writes = <<>>]
    /\ UNCHANGED <<px, pixel_array, nops>>

SyncNext ==
    SyncPoll \/ KeysAction(TRUE) \/ MoveAction(TRUE) \/ RedrawAction(TRUE)

SpecSync == SyncInit /\ [][SyncNext]_vars

\* C37: the strip is kept in step with the array: whenever a step has written
\* a SHOW as its last frame, the colour last written for every index is the
\* 8-bit colour the array holds for that pixel (so every change made by a
\* selection move, fill-all, clear-all or fading has been sent by then).
C37_ShownMatchesArray ==
    (port.writes # <<>> /\ port.writes[Len(port.writes)] = send_show) =>
        \A i \in DOMAIN pixel_array.pixels :
            op.pre[i] = PixelArray_get_rgb8(pixel_array, i)

(***************************************************************************)
(* C38  (checked under SpecKeys)                                           *)
(***************************************************************************)
\* the batch presses K, which was up before it, and releases it later, with
\* no DOWN or REPEAT for K after the release
TapInBatch(K, before, evs) ==
    /\ K \notin before
    /\ \E j \in 1..Len(evs) : \E k \in 1..Len(evs) :
          /\ j < k
          /\ IsDownEv(evs[j], K)
          /\ IsUpEv(evs[k], K)
          /\ \A m \in (k + 1)..Len(evs) : ~IsDownEv(evs[m], K)

\* C38: after every poll each key with a down edge is pressed or has an up
\* edge; a key that went DOWN and then UP within the batch read by one poll
\* has both edges and is not pressed, so that down_edge(K) is true on a poll
\* on which is_pressed(K) is false.
C38_TapKeepsItsDownEdge ==
    /\ key_state.keys_pressed_this_tick
          \subseteq key_state.pressed_keys \cup key_state.keys_released_this_tick
    /\ op.name = "poll" =>
          \A K \in TrackedKeys :
              TapInBatch(K, op.pre.pressed_keys, op.evs) =>
                  /\ K \in key_state.keys_pressed_this_tick
                  /\ K \in key_state.keys_released_this_tick
                  /\ K \notin key_state.pressed_keys
                  /\ down_edge(key_state, {K})
                  /\ ~is_pressed(key_state, {K})

\* one poll read DOWN and then UP for a key that was up before: the key has
\* a down edge and is not pressed
C38_Witness ==
    /\ op.name = "poll"
    /\ op.arg = <<"read">>
    /\ \E K \in TrackedKeys :
          /\ K \notin op.pre.pressed_keys
          /\ op.evs = <<[type |-> EV_KEY, key |-> K, keystate |-> KEY_DOWN_STATE],
                        [type |-> EV_KEY, key |-> K, keystate |-> KEY_UP_STATE]>>
          /\ down_edge(key_state, {K})
          /\ K \in key_state.keys_released_this_tick
          /\ ~is_pressed(key_state, {K})


(***************************************************************************)
(* C39  (checked under SpecMove)                                           *)
(***************************************************************************)
\* the index after the move of key K by delta, if K is held
AfterKey(ks, idx, K, delta, n) ==
    IF K \in ks.pressed_keys THEN (idx + delta) % n ELSE idx

SeveralDirectionsHeld(ks) ==
    Cardinality(ks.pressed_keys \cap DirectionKeys) >= 2

\* C39: in one movement firing with several direction keys held, the moves
\* are applied one after another in the order LEFT, RIGHT, UP, DOWN; the
\* selection ends on the last
\* destination, every destination that differs from the index before it holds
\* the pen colour afterwards, and every destination other than the last is
\* left non-selected.  With only LEFT and RIGHT held from index i the
\* selection ends at i and pixel (i - m) mod led_count holds the pen colour
\* and is not selected.
C39_MovesApplyInOrderAndPaint ==
    [][(MovementFires /\ SeveralDirectionsHeld(key_state)) =>
          LET n  == loop.led_count
              m  == StepMultiplier(key_state)
              i  == pixel_array.selected_pixel_index
              a1 == AfterKey(key_state, i, KEY_LEFT, 0 - m, n)
              a2 == AfterKey(key_state, a1, KEY_RIGHT, m, n)
              a3 == AfterKey(key_state, a2, KEY_UP, 5 * m, n)
              a4 == AfterKey(key_state, a3, KEY_DOWN, 0 - 9 * m, n)
              path == <<i, a1, a2, a3, a4>>
          IN  /\ pixel_array'.selected_pixel_index = a4
              /\ \A k \in 2..5 :
                    /\ path[k] # path[k - 1] =>
                          PixelArray_get_rgb8(pixel_array', path[k])
                              = pixel_array'.selected_color
                    /\ path[k] # a4 => ~pixel_array'.pixels[path[k]].is_selected
              /\ (key_state.pressed_keys \cap DirectionKeys = {KEY_LEFT, KEY_RIGHT}
                    /\ n > 1)
                   => /\ pixel_array'.selected_pixel_index = i
                      /\ PixelArray_get_rgb8(pixel_array', (i - m) % n)
                            = pixel_array'.selected_color
                      /\ ~pixel_array'.pixels[(i - m) % n].is_selected]_vars

====
